---- MODULE Spec2Model ----
(***************************************************************************)
(* A model of the LinkedIn feed extractor (src/ai_agent.py), of its result *)
(* store (src/database.py) and of the upload and results routes of its web *)
(* front end (src/web_interface.py).                                       *)
(*                                                                         *)
(* Text is a sequence of one-character strings, so that strip(), len(),    *)
(* isdigit() and the comma handling are computed and not assumed.  An HTML *)
(* document is the sequence of its elements in document (pre-)order; every *)
(* element carries its tag, its class tokens, its aria-hidden flag, its    *)
(* own text node and the position of its parent (0 for a top-level         *)
(* element).                                                               *)
(***************************************************************************)
EXTENDS Integers, Sequences, FiniteSets, TLC

VARIABLES
    file,            \* the archive process_mhtml_file is called on
    use_ai,          \* argument use_ai
    ai_model,        \* argument ai_model
    openai_client,   \* self.openai_client is not None
    gemini_client,   \* self.gemini_client is not None
    pc,              \* position inside process_mhtml_file / extract_linkedin_data
    html_content,    \* the parsed document (raw_html / soup)
    post_containers, \* positions of the selected containers, in document order
    i,               \* 0-based index of the next container of the loop
    locals,          \* name, title, period, details of the last processed post
    data_list,       \* records appended so far
    raised,          \* 1-based loop positions whose processing raised
    extracted_data,  \* extracted_data of process_mhtml_file
    response,        \* what the text-generation collaborator answered
    calls,           \* number of calls made to the collaborator
    parsed,          \* what _parse_csv_response returned (ai_enhanced_data)
    enhanced_data,   \* what enhance_data_with_ai returned
    analysis,        \* the report of analyze_data, which result["analysis"] is too
    prompt,          \* the instruction handed to the collaborator
    result,          \* the dictionary process_mhtml_file returns
    processing_results, \* table processing_results of the result store
    enhanced_table,  \* table enhanced_data of the result store
    sqlite_sequence, \* the AUTOINCREMENT counters of the two tables
    now,             \* the clock, in seconds
    uploads,         \* the files of the upload folder
    requests,        \* per client: the upload request in flight
    session_store,   \* per browser session: session['upload_data']
    rendered         \* per browser session: the data of the results page shown,
                     \* none on the index page

\* the state of the result store and of the web front end
web_vars == <<processing_results, enhanced_table, sqlite_sequence, now, uploads,
              requests, session_store, rendered>>

vars == <<file, use_ai, ai_model, openai_client, gemini_client, pc, html_content,
          post_containers, i, locals, data_list, raised, extracted_data,
          response, calls, parsed, enhanced_data, analysis, prompt, result, web_vars>>

\* the browser sessions
Sessions == {"s1", "s2"}

\* the clients: the browser sessions and a caller of POST /api/process
Clients == Sessions \cup {"api"}

NoRequest == [pc |-> "idle"]
NoUploadData == [none |-> TRUE]
NoPage == [none |-> TRUE]

\* an empty result store, an empty upload folder and no request
WebIdle ==
    /\ processing_results = {}
    /\ enhanced_table = {}
    /\ sqlite_sequence = [processing_results |-> 0, enhanced_data |-> 0]
    /\ now = 0
    /\ uploads = {}
    /\ requests = [c \in Clients |-> NoRequest]
    /\ session_store = [s \in Sessions |-> NoUploadData]
    /\ rendered = [s \in Sessions |-> NoPage]

---------------------------------------------------------------------------
(* Bounds of the model.                                                    *)

MaxPosts == 3
MaxKids == 2

---------------------------------------------------------------------------
(* Text.                                                                   *)

\* The characters are those of Latin-1 (U+0000..U+00FF).
\* str.isspace(), what str.strip() removes: tab, line feed, vertical tab,
\* form feed, carriage return, U+001C..U+001F, space, U+0085 (next line) and
\* U+00A0 (no-break space)
Whitespace == {" ", "\t", "\n", "\r", "\f", "", "", "", "", "", "", " "}

\* what str.isdigit() accepts: 0-9 and the superscripts two, three and one
Digits == {"0", "1", "2", "3", "4", "5", "6", "7", "8", "9", "²", "³", "¹"}

NA == <<"N", "/", "A">>
NoTitleFound == <<"N", "o", " ", "t", "i", "t", "l", "e", " ", "f", "o", "u", "n", "d">>
EmptyText == << >>

RECURSIVE lstrip(_)
lstrip(s) ==
    IF s # << >> /\ Head(s) \in Whitespace THEN lstrip(Tail(s)) ELSE s

RECURSIVE rstrip(_)
rstrip(s) ==
    IF s # << >> /\ s[Len(s)] \in Whitespace
    THEN rstrip(SubSeq(s, 1, Len(s) - 1))
    ELSE s

\* str.strip()
strip(s) == rstrip(lstrip(s))

\* str.isdigit(): non-empty and every character a digit
isdigit(s) == s # << >> /\ \A k \in 1..Len(s) : s[k] \in Digits

\* the characters str.lower() changes, and what it changes them to
UpperCase ==
    <<"A", "B", "C", "D", "E", "F", "G", "H", "I", "J", "K", "L", "M", "N",
      "O", "P", "Q", "R", "S", "T", "U", "V", "W", "X", "Y", "Z", "À", "Á",
      "Â", "Ã", "Ä", "Å", "Æ", "Ç", "È", "É", "Ê", "Ë", "Ì", "Í", "Î", "Ï",
      "Ð", "Ñ", "Ò", "Ó", "Ô", "Õ", "Ö", "Ø", "Ù", "Ú", "Û", "Ü", "Ý", "Þ">>
LowerCase ==
    <<"a", "b", "c", "d", "e", "f", "g", "h", "i", "j", "k", "l", "m", "n",
      "o", "p", "q", "r", "s", "t", "u", "v", "w", "x", "y", "z", "à", "á",
      "â", "ã", "ä", "å", "æ", "ç", "è", "é", "ê", "ë", "ì", "í", "î", "ï",
      "ð", "ñ", "ò", "ó", "ô", "õ", "ö", "ø", "ù", "ú", "û", "ü", "ý", "þ">>

LowerOf ==
    [c \in {UpperCase[u] : u \in 1..Len(UpperCase)} |->
        LowerCase[CHOOSE u \in 1..Len(UpperCase) : UpperCase[u] = c]]

\* str.lower()
lower(s) ==
    [k \in 1..Len(s) |-> IF s[k] \in DOMAIN LowerOf THEN LowerOf[s[k]] ELSE s[k]]

\* what \w matches: the letters, the digits, the other numeric characters
\* and the underscore
WordCharacters ==
    Digits \cup
    {"A", "B", "C", "D", "E", "F", "G", "H", "I", "J", "K", "L", "M", "N",
     "O", "P", "Q", "R", "S", "T", "U", "V", "W", "X", "Y", "Z", "_", "a",
     "b", "c", "d", "e", "f", "g", "h", "i", "j", "k", "l", "m", "n", "o",
     "p", "q", "r", "s", "t", "u", "v", "w", "x", "y", "z", "ª", "µ", "º",
     "¼", "½", "¾", "À", "Á", "Â", "Ã", "Ä", "Å", "Æ", "Ç", "È", "É", "Ê",
     "Ë", "Ì", "Í", "Î", "Ï", "Ð", "Ñ", "Ò", "Ó", "Ô", "Õ", "Ö", "Ø", "Ù",
     "Ú", "Û", "Ü", "Ý", "Þ", "ß", "à", "á", "â", "ã", "ä", "å", "æ", "ç",
     "è", "é", "ê", "ë", "ì", "í", "î", "ï", "ð", "ñ", "ò", "ó", "ô", "õ",
     "ö", "ø", "ù", "ú", "û", "ü", "ý", "þ", "ÿ"}

\* sep.join(pieces)
RECURSIVE join(_, _)
join(sep, pieces) ==
    IF pieces = << >> THEN << >>
    ELSE IF Len(pieces) = 1 THEN pieces[1]
    ELSE pieces[1] \o sep \o join(sep, Tail(pieces))

---------------------------------------------------------------------------
(* The document tree and BeautifulSoup's queries.                          *)

\* class tokens and the substrings the CSS selectors [class*="..."] look for
ClassSubstrings(token) ==
    CASE token = "feed-shared-update-v2" -> {"date"}
      [] token = "feed-shared-update-v2__description" -> {"description", "date"}
      [] token = "feed-shared-text" -> {"text"}
      [] token = "update-components-actor__description" -> {"actor", "description", "date"}
      [] token = "update-components-actor__sub-description" ->
             {"actor", "description", "date", "sub-description"}
      [] token = "feed-shared-inline-show-more-text" -> {"text"}
      [] token = "update-components-actor__name" -> {"actor", "name", "date"}
      [] token = "job-title" -> {"title"}
      [] token = "post-time" -> {"time"}
      [] token = "post-content" -> {"content"}
      [] token = "post-body" -> {"body"}
      [] OTHER -> {}

Node(tag, cls, aria, text, parent) ==
    [tag |-> tag, cls |-> cls, aria |-> aria, text |-> text, parent |-> parent]

\* the elements strictly below element k (k = 0: the whole document)
RECURSIVE IsBelow(_, _, _)
IsBelow(doc, j, k) ==
    IF j = 0 THEN FALSE
    ELSE IF doc[j].parent = k THEN TRUE
    ELSE IsBelow(doc, doc[j].parent, k)

Descendants(doc, k) == {j \in 1..Len(doc) : IsBelow(doc, j, k)}

\* the members of a set of positions, in document order
RECURSIVE InOrder(_)
InOrder(S) ==
    IF S = {} THEN << >>
    ELSE LET m == CHOOSE x \in S : \A y \in S : x <= y
         IN  <<m>> \o InOrder(S \ {m})

\* element.get_text(' ', strip=True): the stripped, non-empty text nodes of
\* the element and of everything below it, in document order, joined by ' '
RECURSIVE StrippedPieces(_, _)
StrippedPieces(doc, order) ==
    IF order = << >> THEN << >>
    ELSE LET t == strip(doc[Head(order)].text)
         IN  (IF t = << >> THEN << >> ELSE <<t>>) \o StrippedPieces(doc, Tail(order))

get_text(doc, k) ==
    join(<<" ">>, StrippedPieces(doc, InOrder({k} \cup Descendants(doc, k))))

\* find_all / select below element k: matching positions in document order
\* tag with a class token equal to cls (find(..., class_=cls))
ByClass(doc, k, tag, cls) ==
    InOrder({j \in Descendants(doc, k) : doc[j].tag = tag /\ cls \in doc[j].cls})

\* tag[class*="sub"]
ByClassSubstring(doc, k, tag, sub) ==
    InOrder({j \in Descendants(doc, k) :
                /\ doc[j].tag = tag
                /\ \E c \in doc[j].cls : sub \in ClassSubstrings(c)})

\* find('span', {'aria-hidden': 'true'})
ByAriaHidden(doc, k) ==
    InOrder({j \in Descendants(doc, k) : doc[j].tag = "span" /\ doc[j].aria})

\* a bare tag selector ('p', 'time')
ByTag(doc, k, tag) ==
    InOrder({j \in Descendants(doc, k) : doc[j].tag = tag})

\* a CSS selector of the fallback lists: <<tag, substring>>, or <<tag>> alone
Select(doc, k, selector) ==
    IF Len(selector) = 1 THEN ByTag(doc, k, selector[1])
    ELSE ByClassSubstring(doc, k, selector[1], selector[2])

---------------------------------------------------------------------------
(* The Field Extractor.                                                    *)

name_selectors ==
    << <<"span", "actor">>, <<"span", "name">>, <<"a", "actor">>, <<"div", "actor">> >>
title_selectors ==
    << <<"span", "description">>, <<"div", "description">>,
       <<"span", "title">>, <<"div", "title">> >>
period_selectors ==
    << <<"span", "time">>, <<"span", "date">>, <<"time">>, <<"span", "sub-description">> >>
detail_selectors ==
    << <<"div", "text">>, <<"div", "content">>, <<"div", "body">>, <<"p">>,
       <<"span", "text">> >>

\* the loop over a fallback list with select_one: the text of the first
\* selector whose first match has an accepted text, else the default
RECURSIVE FirstAccepted(_, _, _, _, _)
FirstAccepted(doc, k, selectors, rejectDigits, default) ==
    IF selectors = << >> THEN default
    ELSE LET found == Select(doc, k, Head(selectors))
             text == IF found = << >> THEN << >> ELSE get_text(doc, found[1])
         IN  IF found # << >> /\ Len(text) > 1 /\ ~(rejectDigits /\ isdigit(text))
             THEN text
             ELSE FirstAccepted(doc, k, Tail(selectors), rejectDigits, default)

\* the primary strategy of _extract_name: << >> when it yields nothing
NamePrimary(doc, k) ==
    LET found == ByAriaHidden(doc, k)
    IN  IF found # << >> /\ Len(get_text(doc, found[1])) > 1
        THEN get_text(doc, found[1]) ELSE << >>

\* a variant of _extract_name that tries the fallback selectors first
_extract_name_FallbackFirst(doc, k) ==
    LET fallback == FirstAccepted(doc, k, name_selectors, TRUE, << >>)
    IN  IF fallback # << >> THEN fallback
        ELSE IF NamePrimary(doc, k) # << >> THEN NamePrimary(doc, k)
        ELSE NA

_extract_name(doc, k) ==
    IF NamePrimary(doc, k) # << >> THEN NamePrimary(doc, k)
    ELSE FirstAccepted(doc, k, name_selectors, TRUE, NA)

TitlePrimary(doc, k) ==
    LET found == ByClass(doc, k, "span", "update-components-actor__description")
    IN  IF found # << >> /\ Len(get_text(doc, found[1])) > 1
        THEN get_text(doc, found[1]) ELSE << >>

\* a variant of _extract_title whose default is the shared sentinel
_extract_title_SentinelDefault(doc, k) ==
    IF TitlePrimary(doc, k) # << >> THEN TitlePrimary(doc, k)
    ELSE FirstAccepted(doc, k, title_selectors, FALSE, NA)

_extract_title(doc, k) ==
    IF TitlePrimary(doc, k) # << >> THEN TitlePrimary(doc, k)
    ELSE FirstAccepted(doc, k, title_selectors, FALSE, NoTitleFound)

PeriodPrimary(doc, k) ==
    LET found == ByClass(doc, k, "span", "update-components-actor__sub-description")
        inner == IF found = << >> THEN << >> ELSE ByAriaHidden(doc, found[1])
    IN  IF inner # << >> /\ Len(get_text(doc, inner[1])) > 1
        THEN get_text(doc, inner[1]) ELSE << >>

_extract_period(doc, k) ==
    IF PeriodPrimary(doc, k) # << >> THEN PeriodPrimary(doc, k)
    ELSE FirstAccepted(doc, k, period_selectors, FALSE, NA)

DetailsPrimary(doc, k) ==
    LET found == ByClass(doc, k, "div", "feed-shared-inline-show-more-text")
    IN  IF found # << >> /\ Len(get_text(doc, found[1])) > 1
        THEN get_text(doc, found[1]) ELSE << >>

\* the inner loop of _extract_details: the first match longer than 10
RECURSIVE FirstSubstantial(_, _)
FirstSubstantial(doc, found) ==
    IF found = << >> THEN << >>
    ELSE IF Len(get_text(doc, Head(found))) > 10 THEN get_text(doc, Head(found))
    ELSE FirstSubstantial(doc, Tail(found))

RECURSIVE DetailsFallback(_, _, _)
DetailsFallback(doc, k, selectors) ==
    IF selectors = << >> THEN NA
    ELSE LET text == FirstSubstantial(doc, Select(doc, k, Head(selectors)))
         IN  IF text # << >> THEN text ELSE DetailsFallback(doc, k, Tail(selectors))

_extract_details(doc, k) ==
    IF DetailsPrimary(doc, k) # << >> THEN DetailsPrimary(doc, k)
    ELSE DetailsFallback(doc, k, detail_selectors)

---------------------------------------------------------------------------
(* The Post Enumerator: extract_linkedin_data, one action per step.        *)

\* no instruction has been built
NoPrompt == [pending |-> TRUE]

NoLocals == [name |-> << >>, title |-> << >>, period |-> << >>, details |-> << >>]

\* soup.find_all('div', class_=cls) over the whole document
find_all_div(doc, cls) == ByClass(doc, 0, "div", cls)

\* a variant of the selection that gathers the matches of all three selectors
SelectedContainers_AllSelectors(doc) ==
    InOrder({j \in 1..Len(doc) :
                \E cls \in {"feed-shared-update-v2", "feed-shared-update-v2__description",
                            "feed-shared-text"} :
                    doc[j].tag = "div" /\ cls \in doc[j].cls})

\* lines 122-129: the first container selector with a match supplies them all
SelectedContainers(doc) ==
    IF find_all_div(doc, "feed-shared-update-v2") # << >>
    THEN find_all_div(doc, "feed-shared-update-v2")
    ELSE IF find_all_div(doc, "feed-shared-update-v2__description") # << >>
    THEN find_all_div(doc, "feed-shared-update-v2__description")
    ELSE find_all_div(doc, "feed-shared-text")

\* a variant of the test of line 153 without the comparison with 'N/A'
NameUsable_NoSentinelTest(name) == name # << >> /\ strip(name) # << >>

\* line 153: if name and name != 'N/A' and name.strip()
NameUsable(name) == name # << >> /\ name # NA /\ strip(name) # << >>

\* a variant of the record that numbers the emitted records, not the containers
PostRecord_DenseIndex(name, title, period, details, idx) ==
    [Name |-> strip(name),
     Title |-> IF title # << >> THEN strip(title) ELSE NA,
     Period |-> IF period # << >> THEN strip(period) ELSE NA,
     Details |-> IF details # << >> THEN strip(details) ELSE NA,
     Post_Index |-> Len(data_list) + 1]

\* lines 154-160: the record appended for the post at 0-based loop index idx
PostRecord(name, title, period, details, idx) ==
    [Name |-> strip(name),
     Title |-> IF title # << >> THEN strip(title) ELSE NA,
     Period |-> IF period # << >> THEN strip(period) ELSE NA,
     Details |-> IF details # << >> THEN strip(details) ELSE NA,
     Post_Index |-> idx + 1]

SelectContainers ==
    /\ pc = "select"
    /\ post_containers' = SelectedContainers(html_content)
    /\ data_list' = << >>
    /\ i' = 0
    /\ pc' = "loop"
    /\ UNCHANGED <<parsed, enhanced_data, file, use_ai, ai_model, openai_client, gemini_client, html_content,
                   locals, raised, extracted_data, response, calls, result, analysis, prompt, web_vars>>

\* a variant of the loop whose try block encloses the loop: an exception
\* ends the enumeration
ProcessPost_AbortOnError ==
    /\ pc = "loop"
    /\ i < Len(post_containers)
    /\ \E exc \in BOOLEAN :
          IF exc
          THEN /\ raised' = raised \cup {i + 1}
               /\ i' = Len(post_containers)
               /\ UNCHANGED <<locals, data_list>>
          ELSE LET post == post_containers[i + 1]
                   name == _extract_name(html_content, post)
                   title == _extract_title(html_content, post)
                   period == _extract_period(html_content, post)
                   details == _extract_details(html_content, post)
               IN  /\ locals' = [name |-> name, title |-> title,
                                 period |-> period, details |-> details]
                   /\ data_list' =
                          IF NameUsable(name)
                          THEN Append(data_list, PostRecord(name, title, period, details, i))
                          ELSE data_list
                   /\ i' = i + 1
                   /\ UNCHANGED raised
    /\ UNCHANGED <<parsed, enhanced_data, file, use_ai, ai_model, openai_client,
                   gemini_client, pc, html_content, post_containers, extracted_data,
                   response, calls, result, analysis, prompt, web_vars>>

\* one iteration of the for loop (lines 138-164); exc: the body raises
ProcessPost ==
    /\ pc = "loop"
    /\ i < Len(post_containers)
    /\ \E exc \in BOOLEAN :
          IF exc
          THEN /\ raised' = raised \cup {i + 1}
               /\ UNCHANGED <<locals, data_list>>
          ELSE LET post == post_containers[i + 1]
                   name == _extract_name(html_content, post)
                   title == _extract_title(html_content, post)
                   period == _extract_period(html_content, post)
                   details == _extract_details(html_content, post)
               IN  /\ locals' = [name |-> name, title |-> title,
                                 period |-> period, details |-> details]
                   /\ data_list' =
                          IF NameUsable(name)
                          THEN Append(data_list, PostRecord(name, title, period, details, i))
                          ELSE data_list
                   /\ UNCHANGED raised
    /\ i' = i + 1
    /\ UNCHANGED <<parsed, enhanced_data, file, use_ai, ai_model, openai_client, gemini_client, pc, html_content,
                   post_containers, extracted_data, response, calls, result, analysis, prompt, web_vars>>

\* line 166 and line 945: return data_list, bound to extracted_data
EnumReturn ==
    /\ pc = "loop"
    /\ i = Len(post_containers)
    /\ extracted_data' = data_list
    /\ pc' = "enhance"
    /\ UNCHANGED <<parsed, enhanced_data, file, use_ai, ai_model, openai_client, gemini_client, html_content,
                   post_containers, i, locals, data_list, raised, response, calls, result, analysis, prompt, web_vars>>

---------------------------------------------------------------------------
(* Input documents.                                                        *)

Al == <<"A", "l">>
Bo == <<"B", "o">>
\* a name after a no-break space (&nbsp;) and before a line feed
PaddedAl == <<" ", "A", "l", "\n">>
OneChar == <<"J">>
FortyTwo == <<"4", "2">>
PM == <<"P", "M">>
VP == <<"V", "P">>
TwoWeeks == <<"2", "w">>
OneDay == <<"1", "d">>
Ago == <<"a", "g", "o">>
Hi == <<"H", "i">>
Short == <<"s", "h", "o", "r", "t">>
HiringNow == <<"H", "i", "r", "i", "n", "g", " ", "n", "o", "w", "!">>

\* an element of a post: up = 1 puts it below the element before it,
\* up = 0 directly below the container
Kid(tag, cls, aria, text, up) ==
    [tag |-> tag, cls |-> cls, aria |-> aria, text |-> text, up |-> up]

FieldKids ==
    { Kid("span", {}, TRUE, Al, 0),
      Kid("span", {}, TRUE, OneChar, 0),
      Kid("span", {}, TRUE, PaddedAl, 0),
      Kid("span", {}, TRUE, NA, 0),
      Kid("span", {}, TRUE, TwoWeeks, 1),
      Kid("span", {"update-components-actor__name"}, FALSE, Bo, 0),
      Kid("span", {"update-components-actor__name"}, FALSE, FortyTwo, 0),
      Kid("span", {"update-components-actor__description"}, FALSE, PM, 0),
      Kid("span", {"update-components-actor__description"}, FALSE, EmptyText, 0),
      Kid("div", {"job-title"}, FALSE, VP, 0),
      Kid("span", {"update-components-actor__sub-description"}, FALSE, Ago, 0),
      Kid("span", {"post-time"}, FALSE, OneDay, 0),
      Kid("div", {"feed-shared-inline-show-more-text"}, FALSE, Hi, 0),
      Kid("div", {"feed-shared-inline-show-more-text"}, FALSE, OneChar, 0),
      Kid("p", {}, FALSE, HiringNow, 0),
      Kid("div", {"post-content"}, FALSE, Short, 0) }

EnumKids ==
    { Kid("span", {}, TRUE, Al, 0),
      Kid("span", {}, TRUE, PaddedAl, 0),
      Kid("span", {}, TRUE, NA, 0) }

ContainerClasses ==
    {"feed-shared-update-v2", "feed-shared-update-v2__description", "feed-shared-text"}

\* sequences over S of length 0..n
SeqsUpTo(S, n) == UNION {[1..m -> S] : m \in 0..n}

\* a top-level div of class cls with the given elements below it, placed at
\* position base + 1 of the document
RECURSIVE KidNodes(_, _, _)
KidNodes(kids, base, done) ==
    IF done = Len(kids) THEN << >>
    ELSE LET kd == kids[done + 1]
             parent == IF kd.up = 1 /\ done > 0 THEN base + 1 + done ELSE base + 1
         IN  <<Node(kd.tag, kd.cls, kd.aria, kd.text, parent)>>
             \o KidNodes(kids, base, done + 1)

Block(cls, kids, base) ==
    <<Node("div", {cls}, FALSE, EmptyText, 0)>> \o KidNodes(kids, base, 0)

RECURSIVE Flatten(_, _)
Flatten(blocks, base) ==
    IF blocks = << >> THEN << >>
    ELSE LET b == Block(Head(blocks).cls, Head(blocks).kids, base)
         IN  b \o Flatten(Tail(blocks), base + Len(b))

\* one primary container with up to MaxKids elements of every kind
FieldDocs ==
    {Flatten(<<[cls |-> "feed-shared-update-v2", kids |-> kids]>>, 0) :
        kids \in SeqsUpTo(FieldKids, MaxKids)}

\* up to MaxPosts top-level divs of the three container classes
EnumDocs ==
    {Flatten(blocks, 0) :
        blocks \in SeqsUpTo([cls : ContainerClasses, kids : SeqsUpTo(EnumKids, 1)],
                            MaxPosts)}

NoFile == [path |-> "", readable |-> FALSE, multipart |-> FALSE, parts |-> << >>]

InitEnum ==
    /\ html_content \in FieldDocs \cup EnumDocs
    /\ pc = "select"
    /\ file = NoFile
    /\ use_ai = FALSE
    /\ ai_model = "chatgpt"
    /\ openai_client = FALSE
    /\ gemini_client = FALSE
    /\ post_containers = << >>
    /\ i = 0
    /\ locals = NoLocals
    /\ data_list = << >>
    /\ raised = {}
    /\ extracted_data = << >>
    /\ response = [failed |-> FALSE, text |-> << >>]
    /\ calls = 0
    /\ parsed = [none |-> TRUE, value |-> << >>]
    /\ enhanced_data = [none |-> TRUE, value |-> << >>]
    /\ result = [pending |-> TRUE]
    /\ analysis = [pending |-> TRUE]
    /\ prompt = NoPrompt
    /\ WebIdle

NextEnum == SelectContainers \/ ProcessPost \/ EnumReturn

\* extract_linkedin_data on its own, over every bounded document
SpecEnum == InitEnum /\ [][NextEnum]_vars

---------------------------------------------------------------------------
(* The Archive Reader.                                                     *)

\* extract_html_content: file.parts is message.walk() (the message itself
\* when it is not multipart); the payload of a part is << >> when it has
\* none, else the document its bytes decode to (UTF-8, or Latin-1 when
\* UTF-8 fails: payload.enc records which).  << >> stands for "".
RECURSIVE FirstHtml(_)
FirstHtml(parts) ==
    IF parts = << >> THEN << >>
    ELSE IF Head(parts).ctype = "text/html" /\ Head(parts).payload.doc # << >>
    THEN Head(parts).payload.doc
    ELSE FirstHtml(Tail(parts))

extract_html_content(f) ==
    IF f.multipart THEN FirstHtml(f.parts)
    ELSE IF f.parts[1].ctype = "text/html" THEN f.parts[1].payload.doc
    ELSE << >>

---------------------------------------------------------------------------
(* The AI Enhancement Adapter.                                             *)

Comma == <<",">>
Newline == <<"\n">>
\* the grave accent U+0060, which the parser does not take as a string literal
Backtick == "grave"
Fence == <<Backtick, Backtick, Backtick>>
ID_ == <<"I", "D">>
Name_ == <<"N", "a", "m", "e">>
Company_ == <<"C", "o", "m", "p", "a", "n", "y">>
Location_ == <<"L", "o", "c", "a", "t", "i", "o", "n">>

\* ch in s
Contains(s, ch) == \E k \in 1..Len(s) : s[k] = ch

\* s.startswith(prefix)
startswith(s, prefix) ==
    Len(s) >= Len(prefix) /\ SubSeq(s, 1, Len(prefix)) = prefix

\* (cur + s).split(ch): the pieces between the occurrences of ch
split(s, ch, cur) ==
    LET t == cur \o s
        cuts == {k \in 1..Len(t) : t[k] = ch}
        cut(j) == IF j = 0 THEN 0
                  ELSE IF j > Cardinality(cuts) THEN Len(t) + 1
                  ELSE CHOOSE k \in cuts : Cardinality({x \in cuts : x <= k}) = j
    IN  [j \in 1..Cardinality(cuts) + 1 |-> SubSeq(t, cut(j - 1) + 1, cut(j) - 1)]

\* s.strip(chars)
RECURSIVE strip_chars(_, _)
strip_chars(s, chars) ==
    IF s # << >> /\ Head(s) \in chars THEN strip_chars(Tail(s), chars)
    ELSE IF s # << >> /\ s[Len(s)] \in chars
    THEN strip_chars(SubSeq(s, 1, Len(s) - 1), chars)
    ELSE s

\* the loop of lines 857-869 over the lines of the response.  The first
\* branch takes every line that starts with a fence, so the closing-fence
\* branch (lines 862-864) is never taken.
RECURSIVE CollectCsvLines(_, _, _)
CollectCsvLines(lines, in_csv, csv_lines) ==
    IF lines = << >> THEN csv_lines
    ELSE LET line == strip(Head(lines))
         IN  IF startswith(line, Fence \o <<"c", "s", "v">>) \/ startswith(line, Fence)
             THEN CollectCsvLines(Tail(lines), TRUE, csv_lines)
             ELSE IF in_csv /\ line # << >>
             THEN CollectCsvLines(Tail(lines), in_csv, Append(csv_lines, line))
             ELSE IF ~in_csv /\ Contains(line, ",")
             THEN CollectCsvLines(Tail(lines), in_csv, Append(csv_lines, line))
             ELSE CollectCsvLines(Tail(lines), in_csv, csv_lines)

\* line 873: every stripped non-empty line with a comma
RECURSIVE CommaLines(_)
CommaLines(lines) ==
    IF lines = << >> THEN << >>
    ELSE (IF strip(Head(lines)) # << >> /\ Contains(Head(lines), ",")
          THEN <<strip(Head(lines))>> ELSE << >>) \o CommaLines(Tail(lines))

\* lines 877-880: at least 4 comma-separated fields
LooksLikeCsv(line) == Contains(line, ",") /\ Len(split(line, ",", << >>)) >= 4

\* csv.reader of the excel dialect.  st is the state of the reader ("start":
\* START_FIELD, "field": IN_FIELD, "quoted": IN_QUOTED_FIELD, "quote":
\* QUOTE_IN_QUOTED_FIELD).
\* the position of the line break that ends the record starting at k (a line
\* break inside a quoted field does not end it), Len(s) + 1 when none does
RECURSIVE RecordEnd(_, _, _)
RecordEnd(s, k, st) ==
    IF k > Len(s) THEN k
    ELSE CASE st = "quoted" ->
                RecordEnd(s, k + 1, IF s[k] = "\"" THEN "quote" ELSE "quoted")
           [] st = "quote" /\ s[k] = "\"" -> RecordEnd(s, k + 1, "quoted")
           [] st = "start" /\ s[k] = "\"" -> RecordEnd(s, k + 1, "quoted")
           [] s[k] = "\n" -> k
           [] s[k] = "," -> RecordEnd(s, k + 1, "start")
           [] OTHER -> RecordEnd(s, k + 1, "field")

\* the fields of one record
RECURSIVE CsvFields(_, _, _, _)
CsvFields(s, st, field, row) ==
    IF s = << >> THEN Append(row, field)
    ELSE LET c == Head(s)
             rest == Tail(s)
         IN  CASE st = "quoted" ->
                    IF c = "\"" THEN CsvFields(rest, "quote", field, row)
                    ELSE CsvFields(rest, "quoted", Append(field, c), row)
               [] st = "quote" /\ c = "\"" ->
                    CsvFields(rest, "quoted", Append(field, c), row)
               [] st = "start" /\ c = "\"" ->
                    CsvFields(rest, "quoted", field, row)
               [] c = "," ->
                    CsvFields(rest, "start", << >>, Append(row, field))
               [] OTHER ->
                    CsvFields(rest, "field", Append(field, c), row)

\* the records of the text; an empty line gives no record.  st, field, row
\* and begun are the state of the reader at the start of s
RECURSIVE CsvRows(_, _, _, _, _)
CsvRows(s, st, field, row, begun) ==
    IF s = << >>
    THEN IF begun THEN <<Append(row, field)>> ELSE << >>
    ELSE LET end == RecordEnd(s, 1, st)
             record == SubSeq(s, 1, end - 1)
         IN  (IF record = << >> /\ ~begun THEN << >>
              ELSE <<CsvFields(record, st, field, row)>>)
             \o CsvRows(SubSeq(s, end + 1, Len(s)), "start", << >>, << >>, FALSE)

\* csv.Error "new-line character seen in unquoted field": the reader meets a
\* carriage return outside a quoted field and a further character after it
\* (the lines are stripped, so one always follows)
RECURSIVE CsvRaises(_, _)
CsvRaises(s, st) ==
    IF s = << >> THEN FALSE
    ELSE LET c == Head(s)
             rest == Tail(s)
         IN  CASE st = "quoted" ->
                    CsvRaises(rest, IF c = "\"" THEN "quote" ELSE "quoted")
               [] st = "quote" /\ c = "\"" -> CsvRaises(rest, "quoted")
               [] st = "start" /\ c = "\"" -> CsvRaises(rest, "quoted")
               [] c = "\r" -> TRUE
               [] c = "\n" \/ c = "," -> CsvRaises(rest, "start")
               [] OTHER -> CsvRaises(rest, "field")

\* csv.DictReader's row[key]: the value under the last header cell equal to
\* key; "missing" when no header cell is key, "none" when the row is shorter
HeaderPositions(header, key) == {k \in 1..Len(header) : header[k] = key}

\* lines 906-920: the cleaned value of a required field
CleanedField(header, row, key) ==
    LET at == HeaderPositions(header, key)
        k == CHOOSE x \in at : \A y \in at : y <= x
    IN  IF at = {} THEN NA
        ELSE IF k > Len(row) \/ row[k] = << >> THEN NA
        ELSE strip_chars(strip_chars(strip(row[k]), {"\""}), {"'"})

RECURSIVE CleanedRows(_, _)
CleanedRows(header, rows) ==
    IF rows = << >> THEN << >>
    ELSE <<[ID |-> CleanedField(header, Head(rows), ID_),
            Name |-> CleanedField(header, Head(rows), Name_),
            Company |-> CleanedField(header, Head(rows), Company_),
            Location |-> CleanedField(header, Head(rows), Location_)]>>
         \o CleanedRows(header, Tail(rows))

\* what the adapter's steps return: None, or a list
None == [none |-> TRUE, value |-> << >>]
Some(list) == [none |-> FALSE, value |-> list]

\* _parse_csv_response
_parse_csv_response(response_text) ==
    LET lines == split(strip(response_text), "\n", << >>)
        collected == CollectCsvLines(lines, FALSE, << >>)
        csv_lines == IF collected = << >> THEN CommaLines(lines) ELSE collected
        filtered_csv_lines == SelectSeq(csv_lines, LooksLikeCsv)
        csv_content == join(Newline, filtered_csv_lines)
        rows == CsvRows(csv_content, "start", << >>, << >>, FALSE)
    IN  IF Len(filtered_csv_lines) < 2 THEN None
        ELSE IF CsvRaises(csv_content, "start") THEN None
        ELSE Some(CleanedRows(Head(rows), Tail(rows)))

\* item.get(field, 'N/A')
GetOrSentinel(item, field) == IF field \in DOMAIN item THEN item[field] ELSE NA

\* item.get(field, '')
GetOrEmptyText(item, field) == IF field \in DOMAIN item THEN item[field] ELSE EmptyText

\* a variant that keys the lookup by the Name as given, untrimmed
LookupPositions_Untrimmed(ai_enhanced_data, name) ==
    {k \in 1..Len(ai_enhanced_data) :
        ai_enhanced_data[k].Name # << >> /\ ai_enhanced_data[k].Name = name}

\* ai_lookup.get(name): the last parsed row whose stripped Name is name
LookupPositions(ai_enhanced_data, name) ==
    {k \in 1..Len(ai_enhanced_data) :
        /\ strip(GetOrEmptyText(ai_enhanced_data[k], "Name")) # << >>
        /\ strip(GetOrEmptyText(ai_enhanced_data[k], "Name")) = name}

\* lines 780-810: one merged record
MergedItem(original_item, ai_enhanced_data) ==
    LET at == LookupPositions(ai_enhanced_data, strip(GetOrEmptyText(original_item, "Name")))
        k == CHOOSE x \in at : \A y \in at : y <= x
    IN  [Name |-> GetOrSentinel(original_item, "Name"),
         Title |-> GetOrSentinel(original_item, "Title"),
         Period |-> GetOrSentinel(original_item, "Period"),
         Details |-> GetOrSentinel(original_item, "Details"),
         Company |-> IF at = {} THEN NA ELSE GetOrSentinel(ai_enhanced_data[k], "Company"),
         Location |-> IF at = {} THEN NA ELSE GetOrSentinel(ai_enhanced_data[k], "Location")]

\* a variant of the merge that keeps only the records with a matching row
RECURSIVE _merge_MatchedOnly(_, _)
_merge_MatchedOnly(original_data, ai_enhanced_data) ==
    IF original_data = << >> THEN << >>
    ELSE (IF LookupPositions(ai_enhanced_data, strip(GetOrEmptyText(Head(original_data), "Name"))) = {}
          THEN << >>
          ELSE <<MergedItem(Head(original_data), ai_enhanced_data)>>)
         \o _merge_MatchedOnly(Tail(original_data), ai_enhanced_data)

\* _merge_ai_enhancement_with_original
RECURSIVE _merge_ai_enhancement_with_original(_, _)
_merge_ai_enhancement_with_original(original_data, ai_enhanced_data) ==
    IF original_data = << >> THEN << >>
    ELSE <<MergedItem(Head(original_data), ai_enhanced_data)>>
         \o _merge_ai_enhancement_with_original(Tail(original_data), ai_enhanced_data)

\* lines 841-843: the fields every record is made to have
RequiredFields == {"Name", "Title", "Period", "Details", "Company", "Location"}

\* lines 837-843, one record: the method and the confidence are set (0.9 is
\* written in hundredths), and a required field the record lacks becomes 'N/A'
WithMetadata(item, extraction_method) ==
    [k \in DOMAIN item \cup {"extraction_method", "confidence"} \cup RequiredFields |->
        IF k = "extraction_method" THEN extraction_method
        ELSE IF k = "confidence" THEN 90
        ELSE IF k \in DOMAIN item THEN item[k]
        ELSE NA]

\* _add_metadata writes into the records of data and returns data itself;
\* both callers (lines 604 and 668) pass the list the merge has just built,
\* which nothing else holds, so the list returned is all there is to observe
RECURSIVE _add_metadata(_, _)
_add_metadata(data, extraction_method) ==
    IF data = << >> THEN << >>
    ELSE <<WithMetadata(Head(data), extraction_method)>>
         \o _add_metadata(Tail(data), extraction_method)

\* "traditional+ai_" + model
AiMethod(model) ==
    CASE model = "chatgpt" -> "traditional+ai_chatgpt"
      [] model = "gemini" -> "traditional+ai_gemini"
      [] OTHER -> "traditional+ai_other"

\* value.replace('"', '""'), also what the csv writer does inside a quoted
\* field
RECURSIVE DoubledQuotes(_)
DoubledQuotes(s) ==
    IF s = << >> THEN << >>
    ELSE (IF Head(s) = "\"" THEN <<"\"", "\"">> ELSE <<Head(s)>>) \o DoubledQuotes(Tail(s))

\* lines 736-748: quotes doubled, then wrapped in quotes if there is a comma
CsvInputField(value) ==
    LET escaped == DoubledQuotes(value)
    IN  IF Contains(escaped, ",") THEN <<"\"">> \o escaped \o <<"\"">> ELSE escaped

CsvInputHeader == <<"N", "a", "m", "e", ",", "T", "i", "t", "l", "e", ",",
                    "P", "e", "r", "i", "o", "d", ",", "D", "e", "t", "a", "i", "l", "s">>

\* lines 750: name,title,period,details
CsvInputLine(item) ==
    join(Comma, <<CsvInputField(GetOrSentinel(item, "Name")),
                  CsvInputField(GetOrSentinel(item, "Title")),
                  CsvInputField(GetOrSentinel(item, "Period")),
                  CsvInputField(GetOrSentinel(item, "Details"))>>)

\* _convert_to_csv_input: "" for no data, else the header line and one line
\* per record
_convert_to_csv_input(data) ==
    IF data = << >> THEN << >>
    ELSE join(Newline, <<CsvInputHeader>> \o [k \in 1..Len(data) |-> CsvInputLine(data[k])])

\* lines 559-581 / 629-651: the instruction; of its fixed text the model
\* keeps the row count it names, and the tabular block put into it
BuildPrompt(traditional_data) ==
    [rows |-> 71, csv_input |-> _convert_to_csv_input(traditional_data)]

\* lines 595-611 / 658-675: what the adapter returns for a response; Failed
\* is the call raising (timeout, transport or API error)
Failed == [failed |-> TRUE, text |-> << >>]
Answer(text) == [failed |-> FALSE, text |-> text]

EnhanceResult(traditional_data, resp, model) ==
    IF resp.failed THEN None
    ELSE LET rows == _parse_csv_response(resp.text)
         IN  IF rows.none \/ rows.value = << >> THEN None
             ELSE Some(_add_metadata(
                      _merge_ai_enhancement_with_original(traditional_data, rows.value),
                      AiMethod(model)))

---------------------------------------------------------------------------
(* The Quality Analyzer.                                                   *)

(* Line 460 computes round((complete_fields / total_fields) * 100, 2) in     *)
(* binary floating point: the quotient is rounded to 53 significant bits,   *)
(* its product with 100 is rounded again, and round() gives the two-decimal *)
(* number nearest to the exact value of that double.  A number is written   *)
(* here as the sequence of its binary digits, lowest first, without leading *)
(* zeros.                                                                   *)

Mantissa == 53

RECURSIVE ToBits(_)
ToBits(n) == IF n = 0 THEN << >> ELSE <<n % 2>> \o ToBits(n \div 2)

\* bits * k + carry, for a small k
RECURSIVE MulSmall(_, _, _)
MulSmall(bits, k, carry) ==
    IF bits = << >> THEN ToBits(carry)
    ELSE LET v == Head(bits) * k + carry
         IN  <<v % 2>> \o MulSmall(Tail(bits), k, v \div 2)

RECURSIVE AddOne(_)
AddOne(bits) ==
    IF bits = << >> THEN <<1>>
    ELSE IF Head(bits) = 0 THEN <<1>> \o Tail(bits)
    ELSE <<0>> \o AddOne(Tail(bits))

\* bits * 2^k
ShiftLeft(bits, k) == IF bits = << >> THEN << >> ELSE [j \in 1..k |-> 0] \o bits

\* -1, 0 or 1 as a is below, equal to or above b
CompareBits(a, b) ==
    IF Len(a) # Len(b) THEN (IF Len(a) > Len(b) THEN 1 ELSE -1)
    ELSE IF a = b THEN 0
    ELSE LET differ == {k \in 1..Len(a) : a[k] # b[k]}
             top == CHOOSE k \in differ : \A j \in differ : j <= k
         IN  IF a[top] > b[top] THEN 1 ELSE -1

\* a number of 54 binary digits after rounding up is 2^53: it loses its
\* last digit
Renormalised(m, shift) ==
    IF Len(m) > Mantissa THEN [m |-> Tail(m), shift |-> shift + 1]
    ELSE [m |-> m, shift |-> shift]

\* high, or the number after it when the dropped digits are more than half
\* a unit, or half a unit and high is odd
NearestEven(high, half, sticky) ==
    IF half /\ (sticky \/ high[1] = 1) THEN AddOne(high) ELSE high

\* the nearest number of at most 53 binary digits, ties to the even one;
\* .m is that number and .shift the count of low digits dropped
RoundToMantissa(bits) ==
    IF Len(bits) <= Mantissa THEN [m |-> bits, shift |-> 0]
    ELSE Renormalised(NearestEven(SubSeq(bits, Len(bits) - Mantissa + 1, Len(bits)),
                                  bits[Len(bits) - Mantissa] = 1,
                                  \E k \in 1..(Len(bits) - Mantissa - 1) : bits[k] = 1),
                      Len(bits) - Mantissa)

\* the binary digits of n / d after the leading one, highest first; n is
\* the remainder so far
RECURSIVE QuotientBits(_, _, _)
QuotientBits(n, d, count) ==
    IF count = 0 THEN << >>
    ELSE IF 2 * n >= d THEN <<1>> \o QuotientBits(2 * n - d, d, count - 1)
    ELSE <<0>> \o QuotientBits(2 * n, d, count - 1)

RECURSIVE QuotientRemainder(_, _, _)
QuotientRemainder(n, d, count) ==
    IF count = 0 THEN n
    ELSE IF 2 * n >= d THEN QuotientRemainder(2 * n - d, d, count - 1)
    ELSE QuotientRemainder(2 * n, d, count - 1)

RECURSIVE Reversed(_)
Reversed(s) == IF s = << >> THEN << >> ELSE Reversed(Tail(s)) \o <<Head(s)>>

\* the least k with n * 2^k >= d
RECURSIVE Doublings(_, _)
Doublings(n, d) == IF n >= d THEN 0 ELSE 1 + Doublings(2 * n, d)

RECURSIVE Pow2(_)
Pow2(k) == IF k = 0 THEN 1 ELSE 2 * Pow2(k - 1)

\* the quotient of n by d, d <= n < 2 * d, to 53 binary digits: low are the
\* digits of the quotient cut off, rest is the remainder left
RoundedQuotient(low, rest, d) ==
    IF 2 * rest > d \/ (2 * rest = d /\ low[1] = 1) THEN AddOne(low) ELSE low

Divided(n, d) ==
    Renormalised(RoundedQuotient(Reversed(<<1>> \o QuotientBits(n - d, d, Mantissa - 1)),
                                 QuotientRemainder(n - d, d, Mantissa - 1), d),
                 0)

\* n / d with n = complete * 2^down and d = total * 2^up
Scaled(complete, total, up, down) ==
    [q |-> Divided(complete * Pow2(down), total * Pow2(up)), up |-> up, down |-> down]

\* the double complete / total, for 0 < complete: .q.m * 2^(.q.shift + .up
\* - .down - 52)
FloatQuotient(complete, total) ==
    Scaled(complete, total,
           IF complete >= total THEN Doublings(total, complete \div 2 + 1) ELSE 0,
           Doublings(complete, total))

\* the double quotient * 100: .m * 2^(.up - .down)
TimesHundred(quotient, p) ==
    [m |-> p.m,
     up |-> quotient.q.shift + quotient.up + p.shift,
     down |-> quotient.down + Mantissa - 1]

Product(quotient) ==
    TimesHundred(quotient, RoundToMantissa(MulSmall(quotient.q.m, 100, 0)))

\* the double (complete / total) * 100
FloatPercent(complete, total) == Product(FloatQuotient(complete, total))

\* -1, 0 or 1 as the double x is below, equal to or above the exact
\* 100 * complete / total
ComparedWithExact(x, complete, total) ==
    CompareBits(ShiftLeft(MulSmall(x.m, total, 0), x.up),
                ShiftLeft(ToBits(100 * complete), x.down))

FloatError(complete, total) ==
    ComparedWithExact(FloatPercent(complete, total), complete, total)

\* the hundredth a percentage halfway between q and q + 1 hundredths goes
\* to: the side the double fell on decides, and a double that is exactly
\* halfway goes to the even hundredth
RoundedTie(q, side) ==
    IF side > 0 \/ (side = 0 /\ q % 2 = 1) THEN q + 1 ELSE q

\* line 460, in hundredths: round((complete / total) * 100, 2).  The double
\* is within a few units of its last digit of the exact percentage, so it
\* rounds as the exact percentage does unless that lies halfway between two
\* hundredths.
RoundedPercent(complete, total) ==
    IF 2 * ((10000 * complete) % total) > total
    THEN (10000 * complete) \div total + 1
    ELSE IF 2 * ((10000 * complete) % total) < total
    THEN (10000 * complete) \div total
    ELSE RoundedTie((10000 * complete) \div total, FloatError(complete, total))

\* lines 452-455: the records whose field differs from the sentinel
CountComplete(data, field) ==
    Cardinality({k \in 1..Len(data) : data[k][field] # NA})

\* a variant that divides by the number of records, not of fields
QualityScore_PerRecord(data) ==
    RoundedPercent(CountComplete(data, "Name") + CountComplete(data, "Title")
                   + CountComplete(data, "Period") + CountComplete(data, "Details"),
                   Len(data))

\* lines 451-460, in hundredths of a percent: round(complete / total * 100, 2)
QualityScore(data) ==
    LET names_complete == CountComplete(data, "Name")
        titles_complete == CountComplete(data, "Title")
        periods_complete == CountComplete(data, "Period")
        details_complete == CountComplete(data, "Details")
        total_fields == Len(data) * 4
        complete_fields == names_complete + titles_complete + periods_complete
                           + details_complete
    IN  RoundedPercent(complete_fields, total_fields)

\* where the maximal runs of word characters start and end
WordStarts(text) ==
    {k \in 1..Len(text) :
        text[k] \in WordCharacters /\ (k = 1 \/ text[k - 1] \notin WordCharacters)}

WordEnds(text) ==
    {k \in 1..Len(text) :
        text[k] \in WordCharacters
        /\ (k = Len(text) \/ text[k + 1] \notin WordCharacters)}

\* the least of a non-empty set of positions
First(positions) == CHOOSE x \in positions : \A y \in positions : x <= y

RECURSIVE WordsFrom(_, _, _)
WordsFrom(text, starts, ends) ==
    IF starts = {} THEN << >>
    ELSE <<SubSeq(text, First(starts), First(ends))>>
         \o WordsFrom(text, starts \ {First(starts)}, ends \ {First(ends)})

\* re.findall(r'\b\w+\b', text): the maximal runs of word characters, in
\* the order they start
findall_words(text) == WordsFrom(text, WordStarts(text), WordEnds(text))

\* lines 491-495: the words of at least min_length characters of the
\* lower-cased texts, in the order they are counted
RECURSIVE CountedWords(_, _)
CountedWords(text_list, min_length) ==
    IF text_list = << >> THEN << >>
    ELSE SelectSeq(findall_words(lower(Head(text_list))),
                   LAMBDA word : Len(word) >= min_length)
         \o CountedWords(Tail(text_list), min_length)

\* the keys of word_count, in the order they were inserted
RECURSIVE FirstOccurrences(_)
FirstOccurrences(words) ==
    IF words = << >> THEN << >>
    ELSE <<Head(words)>>
         \o FirstOccurrences(SelectSeq(Tail(words), LAMBDA word : word # Head(words)))

\* word_count[word]
WordCount(words, word) == Cardinality({k \in 1..Len(words) : words[k] = word})

\* lines 497-498: sorted() by falling count keeps the insertion order among
\* equal counts
SortedByCount(keys, words) ==
    [r \in 1..Len(keys) |->
        keys[CHOOSE b \in 1..Len(keys) :
                Cardinality({a \in 1..Len(keys) :
                    \/ WordCount(words, keys[a]) > WordCount(words, keys[b])
                    \/ WordCount(words, keys[a]) = WordCount(words, keys[b]) /\ a < b})
                = r - 1]]

\* sequence[:n]
FirstOf(sequence, n) ==
    SubSeq(sequence, 1, IF Len(sequence) < n THEN Len(sequence) ELSE n)

\* line 499: of the first ten, the words counted more than once
CommonAmong(words) ==
    SelectSeq(FirstOf(SortedByCount(FirstOccurrences(words), words), 10),
              LAMBDA word : WordCount(words, word) > 1)

_find_common_words(text_list, min_length) ==
    CommonAmong(CountedWords(text_list, min_length))

KeywordsInTitles ==
    <<"C", "o", "m", "m", "o", "n", " ", "k", "e", "y", "w", "o", "r", "d", "s", " ",
      "i", "n", " ", "t", "i", "t", "l", "e", "s", ":", " ">>

\* lines 474-477
KeywordInsight(common_words) ==
    IF common_words = << >> THEN << >>
    ELSE <<KeywordsInTitles \o join(<<",", " ">>, FirstOf(common_words, 5))>>

\* lines 473-475: nothing is looked for when every title is the sentinel
CommonInTitles(titles) ==
    IF titles = << >> THEN << >> ELSE _find_common_words(titles, 4)

\* lines 470-477: for more than one record, the insight that names up to
\* five words common to the titles that are not the sentinel
PatternInsights(data) ==
    IF Len(data) > 1
    THEN KeywordInsight(CommonInTitles(
             SelectSeq([k \in 1..Len(data) |-> data[k].Title], LAMBDA title : title # NA)))
    ELSE << >>

\* lines 441-448 and 460-486: the report.  The first insight and the
\* recommendation are fixed sentences, written by a word each; the clock is
\* read once, for extraction_timestamp
Report(data, score, first_insight, recommendations) ==
    [total_posts |-> Len(data),
     unique_names |-> Cardinality({data[k].Name : k \in 1..Len(data)}),
     extraction_timestamp |-> now,
     data_quality_score |-> score,
     insights |-> <<first_insight>> \o PatternInsights(data),
     recommendations |-> recommendations]

\* a report whose thresholds include their bound: high from 80, moderate
\* from 60, the recommendation up to 80
Classified_InclusiveThresholds(data, score) ==
    Report(data, score,
           IF score >= 8000 THEN "high" ELSE IF score >= 6000 THEN "moderate" ELSE "low",
           IF score <= 8000 THEN <<"review format">> ELSE << >>)

\* lines 462-482
Classified(data, score) ==
    Report(data, score,
           IF score > 8000 THEN "high" ELSE IF score > 6000 THEN "moderate" ELSE "low",
           IF score < 8000 THEN <<"review format">> ELSE << >>)

\* a variant of analyze_data that scores the empty list 0 instead of
\* returning the error-shaped report
analyze_data_ScoreEmpty(data) ==
    Classified(data, IF data = << >> THEN 0 ELSE QualityScore(data))

\* a variant of analyze_data whose thresholds include their bound
analyze_data_InclusiveThresholds(data) ==
    IF data = << >> THEN [error |-> "No data to analyze"]
    ELSE Classified_InclusiveThresholds(data, QualityScore(data))

\* analyze_data; scores are in hundredths (8000 is 80.00)
analyze_data(data) ==
    IF data = << >> THEN [error |-> "No data to analyze"]
    ELSE Classified(data, QualityScore(data))

---------------------------------------------------------------------------
(* process_mhtml_file, one action per step.                                *)

NoResult == [pending |-> TRUE]
NoResponse == [failed |-> FALSE, text |-> << >>]

\* lines 1008-1012
FailureResult(message) ==
    [success |-> FALSE, error |-> message, file_path |-> file.path]

\* line 938: read_mhtml_file raises on an unreadable path
ReadFile ==
    /\ pc = "read"
    /\ IF file.readable
       THEN pc' = "html" /\ UNCHANGED result
       ELSE pc' = "done" /\ result' = FailureResult("read error")
    /\ UNCHANGED <<parsed, enhanced_data, file, use_ai, ai_model, openai_client, gemini_client, html_content,
                   post_containers, i, locals, data_list, raised, extracted_data,
                   response, calls, analysis, prompt, web_vars>>

\* lines 939-942
ExtractHtml ==
    /\ pc = "html"
    /\ html_content' = extract_html_content(file)
    /\ IF html_content' = << >>
       THEN /\ pc' = "done"
            /\ result' = [error |-> "No HTML content found in MHTML file"]
       ELSE pc' = "select" /\ UNCHANGED result
    /\ UNCHANGED <<parsed, enhanced_data, file, use_ai, ai_model, openai_client, gemini_client,
                   post_containers, i, locals, data_list, raised, extracted_data,
                   response, calls, analysis, prompt, web_vars>>

\* lines 949-955 with 536-548 and 613-617: up to the collaborator's call
StartEnhance ==
    /\ pc = "enhance"
    /\ IF use_ai /\ (openai_client \/ gemini_client)
       THEN IF \/ ai_model = "chatgpt" /\ openai_client
               \/ ai_model = "gemini" /\ gemini_client
            THEN /\ prompt' = BuildPrompt(extracted_data)
                 /\ pc' = "await" /\ calls' = calls + 1 /\ UNCHANGED enhanced_data
            ELSE /\ pc' = "analyze"
                 /\ enhanced_data' = IF ai_model \in {"chatgpt", "gemini"}
                                      THEN None ELSE Some(extracted_data)
                 /\ UNCHANGED <<calls, prompt>>
       ELSE pc' = "analyze" /\ UNCHANGED <<calls, enhanced_data, prompt>>
    /\ UNCHANGED <<parsed, file, use_ai, ai_model, openai_client, gemini_client, html_content,
                   post_containers, i, locals, data_list, raised, extracted_data,
                   response, result, analysis, web_vars>>

\* a variant of Respond that sends the request once more when the first
\* answer gave nothing
Respond_RetryOnce(resp) ==
    /\ pc = "await"
    /\ response' = resp
    /\ parsed' = IF resp.failed THEN None ELSE _parse_csv_response(resp.text)
    /\ enhanced_data' = EnhanceResult(extracted_data, resp, ai_model)
    /\ extracted_data' =
           IF enhanced_data'.none THEN extracted_data ELSE enhanced_data'.value
    /\ pc' = IF enhanced_data'.none /\ calls < 2 THEN "enhance" ELSE "analyze"
    /\ UNCHANGED <<file, use_ai, ai_model, openai_client, gemini_client, html_content,
                   post_containers, i, locals, data_list, raised, calls, result, analysis, prompt, web_vars>>

\* lines 585-611 / 655-675 and 956-973: the collaborator answers or fails,
\* the answer is parsed and merged; None leaves extracted_data as it is
Respond(resp) ==
    /\ pc = "await"
    /\ response' = resp
    /\ parsed' = IF resp.failed THEN None ELSE _parse_csv_response(resp.text)
    /\ enhanced_data' = EnhanceResult(extracted_data, resp, ai_model)
    /\ extracted_data' =
           IF enhanced_data'.none THEN extracted_data ELSE enhanced_data'.value
    /\ pc' = "analyze"
    /\ UNCHANGED <<file, use_ai, ai_model, openai_client, gemini_client, html_content,
                   post_containers, i, locals, data_list, raised, calls, result, analysis, prompt, web_vars>>

\* lines 997-1001: the method is written into results["analysis"], which
\* is the dictionary analyze_data returned
WithExtractionMethod(report, extraction_method) ==
    [k \in DOMAIN report \cup {"extraction_method"} |->
        IF k = "extraction_method" THEN extraction_method ELSE report[k]]

\* the dictionary analysis names when process_mhtml_file returns: the
\* report, with the method in it unless line 989 raised before
AnalysisReturned(report, extraction_method) ==
    IF "data_quality_score" \notin DOMAIN report THEN report
    ELSE WithExtractionMethod(report, extraction_method)

\* lines 985-1012: analysis["data_quality_score"] raises KeyError on the
\* error-shaped report, which the outer handler turns into a failure result;
\* the clock is read for processing_time
ResultReturned(report) ==
    IF "data_quality_score" \notin DOMAIN report
    THEN FailureResult("'data_quality_score'")
    ELSE [success |-> TRUE,
          file_path |-> file.path,
          extracted_data |-> extracted_data,
          analysis |-> report,
          summary |-> [total_posts |-> Len(extracted_data),
                       quality_score |-> report.data_quality_score,
                       processing_time |-> now]]

\* lines 979-1012
Analyze ==
    /\ pc = "analyze"
    /\ analysis' = AnalysisReturned(analyze_data(extracted_data),
                                    IF use_ai THEN AiMethod(ai_model) ELSE "traditional")
    /\ result' = ResultReturned(analysis')
    /\ pc' = "done"
    /\ UNCHANGED <<parsed, enhanced_data, file, use_ai, ai_model, openai_client, gemini_client, html_content,
                   post_containers, i, locals, data_list, raised, extracted_data,
                   response, calls, prompt, web_vars>>

---------------------------------------------------------------------------
(* Inputs of process_mhtml_file.                                           *)

XY == <<"X", "Y">>
Zed == <<"Z", "e", "d">>
Remote == <<"R", "e", "m", "o", "t", "e">>
QuotedPlace == <<"\"", "S", "F", ",", " ", "C", "A", "\"">>
Prose == <<"H", "e", "r", "e", " ", "i", "t", " ", "i", "s", ":">>
ProseWithComma == <<"S", "u", "r", "e", ",", " ", "h", "e", "r", "e", ":">>

HeaderLine == join(Comma, <<ID_, Name_, Company_, Location_>>)
SpacedHeaderLine == join(Comma \o <<" ">>, <<ID_, Name_, Company_, Location_>>)
RowAl == join(Comma, <<<<"1">>, Al, XY, Remote>>)
RowBo == join(Comma, <<<<"2">>, Bo, Zed, QuotedPlace>>)
RowAlAgain == join(Comma, <<<<"3">>, Al, Zed, Remote>>)

Responses ==
    { Answer(EmptyText),
      Answer(HeaderLine),
      Answer(join(Newline, <<ProseWithComma, HeaderLine>>)),
      Answer(join(Newline, <<HeaderLine, RowAl>>)),
      Answer(join(Newline, <<Prose, HeaderLine, RowBo, RowAl>>)),
      Answer(join(Newline, <<Fence \o <<"c", "s", "v">>, HeaderLine, RowAl, RowBo, Fence>>)),
      Answer(join(Newline, <<HeaderLine, RowAl, RowAlAgain>>)),
      Answer(join(Newline, <<SpacedHeaderLine, RowAl>>)),
      Failed }

NamedPost(name) ==
    [cls |-> "feed-shared-update-v2", kids |-> <<Kid("span", {}, TRUE, name, 0)>>]

PipeDocs ==
    { <<Node("p", {}, FALSE, HiringNow, 0)>>,
      Flatten(<<NamedPost(NA)>>, 0),
      Flatten(<<NamedPost(Al)>>, 0),
      Flatten(<<NamedPost(Bo), NamedPost(Al)>>, 0),
      Flatten(<<NamedPost(Al), NamedPost(NA), NamedPost(Al)>>, 0) }

Part(ctype, enc, doc) == [ctype |-> ctype, payload |-> [enc |-> enc, doc |-> doc]]
RootPart == Part("multipart/related", "none", << >>)
ImagePart == Part("image/png", "none", << >>)

Archives ==
    {[multipart |-> TRUE, parts |-> <<RootPart, ImagePart>>],
     [multipart |-> TRUE, parts |-> <<RootPart, Part("text/html", "none", << >>)>>],
     [multipart |-> FALSE, parts |-> <<Part("text/plain", "utf8", << >>)>>]}
    \cup {[multipart |-> TRUE,
           parts |-> <<RootPart, Part("text/html", "none", << >>),
                       Part("text/html", "utf8", Flatten(<<NamedPost(Bo)>>, 0))>>]}
    \cup {[multipart |-> TRUE, parts |-> <<RootPart, Part("text/html", "utf8", d), ImagePart>>] :
            d \in PipeDocs}
    \cup {[multipart |-> FALSE, parts |-> <<Part("text/html", "latin1", d)>>] :
            d \in PipeDocs}

Paths == {"a.mhtml", "b.mht"}
Models == {"chatgpt", "gemini", "other"}

Files ==
    {[path |-> p, readable |-> FALSE, multipart |-> FALSE, parts |-> << >>] : p \in Paths}
    \cup {[path |-> p, readable |-> TRUE, multipart |-> a.multipart, parts |-> a.parts] :
            p \in Paths, a \in Archives}

Init ==
    /\ file \in Files
    /\ use_ai \in BOOLEAN
    /\ ai_model \in Models
    /\ openai_client \in BOOLEAN
    /\ gemini_client \in BOOLEAN
    /\ pc = "read"
    /\ html_content = << >>
    /\ post_containers = << >>
    /\ i = 0
    /\ locals = NoLocals
    /\ data_list = << >>
    /\ raised = {}
    /\ extracted_data = << >>
    /\ response = NoResponse
    /\ calls = 0
    /\ parsed = None
    /\ enhanced_data = None
    /\ result = NoResult
    /\ analysis = [pending |-> TRUE]
    /\ prompt = NoPrompt
    /\ WebIdle

Next ==
    \/ ReadFile
    \/ ExtractHtml
    \/ SelectContainers
    \/ ProcessPost
    \/ EnumReturn
    \/ StartEnhance
    \/ \E resp \in Responses : Respond(resp)
    \/ Analyze

\* process_mhtml_file over every bounded archive, configuration and answer
Spec == Init /\ [][Next]_vars

---------------------------------------------------------------------------
(* _merge_ai_enhancement_with_original on its own.                         *)

MaxOrig == 3
MaxRows == 2

\* records as extract_linkedin_data emits them, numbered in order
OriginalFields == [Name : {Al, Bo}, Title : {PM}, Period : {NA}, Details : {NA, HiringNow}]
Numbered(fields) ==
    [k \in 1..Len(fields) |->
        [Name |-> fields[k].Name, Title |-> fields[k].Title, Period |-> fields[k].Period,
         Details |-> fields[k].Details, Post_Index |-> k]]
OriginalLists == {Numbered(fields) : fields \in SeqsUpTo(OriginalFields, MaxOrig)}

\* rows as _parse_csv_response returns them
AiRows ==
    [ID : {<<"1">>}, Name : {Al, Bo, NA, PaddedAl}, Company : {XY, Zed}, Location : {Remote}]
AiRowLists == SeqsUpTo(AiRows, MaxRows)

InitMerge ==
    /\ extracted_data \in OriginalLists
    /\ parsed \in {Some(rows) : rows \in AiRowLists}
    /\ pc = "merge"
    /\ file = NoFile
    /\ use_ai = TRUE
    /\ ai_model = "chatgpt"
    /\ openai_client = TRUE
    /\ gemini_client = FALSE
    /\ html_content = << >>
    /\ post_containers = << >>
    /\ i = 0
    /\ locals = NoLocals
    /\ data_list = << >>
    /\ raised = {}
    /\ response = NoResponse
    /\ calls = 0
    /\ enhanced_data = None
    /\ result = NoResult
    /\ analysis = [pending |-> TRUE]
    /\ prompt = NoPrompt
    /\ WebIdle

Merge ==
    /\ pc = "merge"
    /\ enhanced_data' = Some(_merge_ai_enhancement_with_original(extracted_data, parsed.value))
    /\ pc' = "merged"
    /\ UNCHANGED <<parsed, file, use_ai, ai_model, openai_client, gemini_client, html_content,
                   post_containers, i, locals, data_list, raised, extracted_data,
                   response, calls, result, analysis, prompt, web_vars>>

SpecMerge == InitMerge /\ [][Merge]_vars

---------------------------------------------------------------------------
(* Properties of the Post Enumerator and the Field Extractor (SpecEnum).   *)

EnumDone == pc = "enhance"

\* the positions of the top-level or nested divs carrying class token cls
DivsOfClass(cls) ==
    {j \in 1..Len(html_content) :
        html_content[j].tag = "div" /\ cls \in html_content[j].cls}

\* C5: every record emitted by extract_linkedin_data has a Name that is
\* non-empty, is not the sentinel "N/A" and has no leading or trailing
\* whitespace.
C5_NameUsableAndTrimmed ==
    \A k \in 1..Len(data_list) :
        /\ data_list[k].Name # << >>
        /\ data_list[k].Name # NA
        /\ data_list[k].Name[1] \notin Whitespace
        /\ data_list[k].Name[Len(data_list[k].Name)] \notin Whitespace

\* a document whose first post is named "N/A" and whose second post has a
\* name padded with whitespace: one record, trimmed
C5_Witness ==
    /\ EnumDone
    /\ Len(post_containers) = 2
    /\ raised = {}
    /\ _extract_name(html_content, post_containers[1]) = NA
    /\ Len(html_content) > post_containers[2]
    /\ html_content[post_containers[2] + 1].text = PaddedAl
    /\ Len(data_list) = 1
    /\ data_list[1].Name = Al

\* the post the loop has just processed without an exception
JustProcessed == pc \in {"loop", "enhance"} /\ i >= 1 /\ i \notin raised
LastPost == post_containers[i]

\* the text of the first match of each field's primary selector, whether or
\* not it is accepted; << >> when the selector matches nothing
FirstText(found) == IF found = << >> THEN << >> ELSE get_text(html_content, found[1])
NamePrimaryMatch(k) == ByAriaHidden(html_content, k)
TitlePrimaryMatch(k) ==
    ByClass(html_content, k, "span", "update-components-actor__description")
PeriodPrimaryMatch(k) ==
    LET outer == ByClass(html_content, k, "span", "update-components-actor__sub-description")
    IN  IF outer = << >> THEN << >> ELSE ByAriaHidden(html_content, outer[1])
DetailsPrimaryMatch(k) ==
    ByClass(html_content, k, "div", "feed-shared-inline-show-more-text")

\* some selector of a fallback list matches below element k
FallbackMatches(k, selectors) ==
    \E n \in 1..Len(selectors) : Select(html_content, k, selectors[n]) # << >>

\* C6 as stated: whenever a post matches both a field's primary selector and
\* one of its fallback selectors, the field's value is the primary
\* selector's value.
C6_PrimaryWheneverMatched ==
    JustProcessed =>
        /\ (NamePrimaryMatch(LastPost) # << >> /\ FallbackMatches(LastPost, name_selectors))
              => locals.name = FirstText(NamePrimaryMatch(LastPost))
        /\ (TitlePrimaryMatch(LastPost) # << >> /\ FallbackMatches(LastPost, title_selectors))
              => locals.title = FirstText(TitlePrimaryMatch(LastPost))
        /\ (PeriodPrimaryMatch(LastPost) # << >> /\ FallbackMatches(LastPost, period_selectors))
              => locals.period = FirstText(PeriodPrimaryMatch(LastPost))
        /\ (DetailsPrimaryMatch(LastPost) # << >> /\ FallbackMatches(LastPost, detail_selectors))
              => locals.details = FirstText(DetailsPrimaryMatch(LastPost))

\* C6 amended: whenever the first match of a field's primary selector has a
\* text longer than one character, the field's value is that text, whatever
\* the fallback selectors match.
C6_PrimaryWheneverAccepted ==
    JustProcessed =>
        /\ Len(FirstText(NamePrimaryMatch(LastPost))) > 1
              => locals.name = FirstText(NamePrimaryMatch(LastPost))
        /\ Len(FirstText(TitlePrimaryMatch(LastPost))) > 1
              => locals.title = FirstText(TitlePrimaryMatch(LastPost))
        /\ Len(FirstText(PeriodPrimaryMatch(LastPost))) > 1
              => locals.period = FirstText(PeriodPrimaryMatch(LastPost))
        /\ Len(FirstText(DetailsPrimaryMatch(LastPost))) > 1
              => locals.details = FirstText(DetailsPrimaryMatch(LastPost))

\* a post with an accepted primary name and a fallback name element with
\* another accepted text: the primary's text is the name
C6_Witness ==
    /\ JustProcessed
    /\ Len(FirstText(NamePrimaryMatch(LastPost))) > 1
    /\ Select(html_content, LastPost, name_selectors[1]) # << >>
    /\ FirstText(Select(html_content, LastPost, name_selectors[1])) = Bo
    /\ locals.name = Al

\* the records a run emits when no container raises
RECURSIVE RecordsFrom(_)
RecordsFrom(idx) ==
    IF idx >= Len(post_containers) THEN << >>
    ELSE LET post == post_containers[idx + 1]
             name == _extract_name(html_content, post)
         IN  (IF NameUsable(name)
              THEN <<PostRecord(name, _extract_title(html_content, post),
                                _extract_period(html_content, post),
                                _extract_details(html_content, post), idx)>>
              ELSE << >>)
             \o RecordsFrom(idx + 1)

NotRaised(rec) == rec.Post_Index \notin raised

\* C8: an exception while processing one container skips that container
\* only: the records returned are those of the run in which nothing raises,
\* less the records of the containers that raised.
C8_PerPostIsolation ==
    EnumDone => data_list = SelectSeq(RecordsFrom(0), NotRaised)

\* the first container raised and a later one still produced its record
C8_Witness ==
    /\ EnumDone
    /\ 1 \in raised
    /\ Len(post_containers) >= 3
    /\ \E k \in 1..Len(data_list) : data_list[k].Post_Index = 3

\* the container class the selection settles on
ChosenClass ==
    IF DivsOfClass("feed-shared-update-v2") # {} THEN "feed-shared-update-v2"
    ELSE IF DivsOfClass("feed-shared-update-v2__description") # {}
    THEN "feed-shared-update-v2__description"
    ELSE "feed-shared-text"

\* C9: the candidates are exactly the matches, in document order, of the
\* highest-priority container selector that matches anything; when none of
\* the three matches, the enumerator returns an empty list and nothing raised.
C9_OneSelector ==
    pc \in {"loop", "enhance"} =>
        /\ {post_containers[k] : k \in 1..Len(post_containers)} = DivsOfClass(ChosenClass)
        /\ Len(post_containers) = Cardinality(DivsOfClass(ChosenClass))
        /\ \A a, b \in 1..Len(post_containers) :
              a < b => post_containers[a] < post_containers[b]
        /\ (DivsOfClass("feed-shared-update-v2") \cup
            DivsOfClass("feed-shared-update-v2__description") \cup
            DivsOfClass("feed-shared-text") = {})
              => (post_containers = << >> /\ (EnumDone => extracted_data = << >>))

\* a document with a first-fallback div before a primary div and a
\* second-fallback div: only the primary div is a candidate
C9_Witness ==
    /\ EnumDone
    /\ Len(html_content) >= 3
    /\ "feed-shared-update-v2__description" \in html_content[1].cls
    /\ DivsOfClass("feed-shared-update-v2") # {}
    /\ DivsOfClass("feed-shared-text") # {}
    /\ Len(post_containers) = 1

\* C10: Post_Index is the 1-based position of the record's container among
\* all selected containers, skipped ones included, so the values increase
\* strictly along the output.
C10_PostIndexIsPosition ==
    /\ \A k \in 1..Len(data_list) :
          /\ data_list[k].Post_Index \in 1..i
          /\ data_list[k].Post_Index \notin raised
          /\ LET post == post_containers[data_list[k].Post_Index]
             IN  /\ data_list[k].Name = strip(_extract_name(html_content, post))
                 /\ data_list[k].Title = strip(_extract_title(html_content, post))
                 /\ data_list[k].Period = strip(_extract_period(html_content, post))
                 /\ data_list[k].Details = strip(_extract_details(html_content, post))
    /\ \A a, b \in 1..Len(data_list) :
          a < b => data_list[a].Post_Index < data_list[b].Post_Index

\* three containers, the middle one without a usable name: indices 1 and 3
C10_Witness ==
    /\ EnumDone
    /\ raised = {}
    /\ Len(post_containers) = 3
    /\ Len(data_list) = 2
    /\ data_list[1].Post_Index = 1
    /\ data_list[2].Post_Index = 3
---------------------------------------------------------------------------
(* Properties of the enhancement merge (SpecMerge).                        *)

Merged == pc = "merged"

\* C3: the merge keeps count and order: N original records give N merged
\* records, the k-th with the Name of the k-th original record, whatever the
\* parsed rows are.
C3_MergeKeepsCountAndOrder ==
    Merged =>
        /\ Len(enhanced_data.value) = Len(extracted_data)
        /\ \A k \in 1..Len(extracted_data) :
              enhanced_data.value[k].Name = extracted_data[k].Name

\* three records against a single row: the first record has no matching
\* row, a later one has
C3_Witness ==
    /\ Merged
    /\ Len(extracted_data) = 3
    /\ Len(parsed.value) = 1
    /\ enhanced_data.value[1].Company = NA
    /\ \E k \in 2..3 : enhanced_data.value[k].Company # NA

---------------------------------------------------------------------------
(* Properties of process_mhtml_file (Spec).                                *)

Returned == pc = "done"
IsSuccess == "success" \in DOMAIN result /\ result.success

\* the lines of a text that carry at least 4 comma-separated fields
ValidLines(text) == SelectSeq(split(strip(text), "\n", << >>), LooksLikeCsv)

\* the collaborator was called and failed, or left fewer than 2 valid lines
EnhancementFellThrough ==
    calls = 1 /\ pc \in {"analyze", "done"} /\
    (response.failed \/ Len(ValidLines(response.text)) < 2)

\* C1: an archive with an HTML part in which no container selector matches
\* gives a success result with an empty record list, never a failure.
C1_NoContainersIsSoft ==
    (Returned /\ html_content # << >> /\ post_containers = << >>) =>
        (IsSuccess /\ result.extracted_data = << >>)

\* C2: when the collaborator fails or leaves fewer than 2 valid lines, the
\* adapter returns null, and a returned success result carries the
\* traditionally extracted list and reports the method `traditional`.
C2_FallThroughKeepsTraditional ==
    EnhancementFellThrough =>
        /\ enhanced_data.none
        /\ (Returned /\ IsSuccess) =>
              /\ result.extracted_data = data_list
              /\ result.analysis.extraction_method = "traditional"

\* the records of a successful enhancement
EnhancementSucceeded == Returned /\ IsSuccess /\ calls = 1 /\ ~enhanced_data.none

\* C4: after a successful enhancement every field a record carried before
\* (Name, Title, Period, Details, Post_Index) is still there with its value.
C4_EnhancementOnlyAdds ==
    EnhancementSucceeded =>
        /\ Len(result.extracted_data) = Len(data_list)
        /\ \A k \in 1..Len(data_list) :
              \A f \in DOMAIN data_list[k] :
                  /\ f \in DOMAIN result.extracted_data[k]
                  /\ result.extracted_data[k][f] = data_list[k][f]

\* C7: every returned result says whether it succeeded, and every result
\* that is no success carries an error message and the input file path.
C7_StructuredResult ==
    Returned =>
        /\ "success" \in DOMAIN result
        /\ ~result.success =>
              /\ "error" \in DOMAIN result
              /\ "file_path" \in DOMAIN result
              /\ result.file_path = file.path

\* C11: when enhancement is requested (use_ai) and neither collaborator is
\* configured, process_mhtml_file reports an error and never a success result.
C11_MissingCollaboratorIsError ==
    (Returned /\ use_ai /\ ~openai_client /\ ~gemini_client /\ data_list # << >>) =>
        ~IsSuccess

---------------------------------------------------------------------------
(* analyze_data on its own.                                                *)

MaxRecords == 2

\* record lists whose core fields are each the sentinel or a value
AnalyzedFields ==
    [Name : {NA, Al}, Title : {NA, NoTitleFound}, Period : {NA, TwoWeeks},
     Details : {NA, HiringNow}]
\* five-record lists: 20 fields, so that 12 and 16 complete fields give
\* exactly 60 and 80
CompleteFields == [Name |-> Al, Title |-> PM, Period |-> TwoWeeks, Details |-> HiringNow]
SentinelFields == [Name |-> NA, Title |-> NA, Period |-> NA, Details |-> NA]
FiveRecordLists ==
    {Numbered(<<a, b, CompleteFields, CompleteFields, CompleteFields>>) :
        a \in AnalyzedFields, b \in {SentinelFields, CompleteFields}}

AnalyzedLists ==
    {Numbered(fields) : fields \in SeqsUpTo(AnalyzedFields, MaxRecords)} \cup FiveRecordLists

\* the value that replaces a sentinel in a field
Filled(field) ==
    CASE field = "Name" -> Al
      [] field = "Title" -> PM
      [] field = "Period" -> TwoWeeks
      [] OTHER -> HiringNow

InitQuality ==
    /\ extracted_data \in AnalyzedLists
    /\ pc = "analyze_data"
    /\ data_list = << >>
    /\ file = NoFile
    /\ use_ai = FALSE
    /\ ai_model = "chatgpt"
    /\ openai_client = FALSE
    /\ gemini_client = FALSE
    /\ html_content = << >>
    /\ post_containers = << >>
    /\ i = 0
    /\ locals = NoLocals
    /\ raised = {}
    /\ response = NoResponse
    /\ calls = 0
    /\ parsed = None
    /\ enhanced_data = None
    /\ result = NoResult
    /\ analysis = [pending |-> TRUE]
    /\ prompt = NoPrompt
    /\ WebIdle

\* analyze_data(extracted_data)
AnalyzeData ==
    /\ pc = "analyze_data"
    /\ analysis' = analyze_data(extracted_data)
    /\ pc' = "analyzed"
    /\ UNCHANGED <<parsed, enhanced_data, file, use_ai, ai_model, openai_client,
                   gemini_client, html_content, post_containers, i, locals,
                   data_list, raised, extracted_data, response, calls, result, prompt, web_vars>>

\* a sentinel field of one record is replaced by a value and the same-size
\* set is analysed again; data_list keeps the set as it was before
ReplaceSentinel(k, field) ==
    /\ pc = "analyzed"
    /\ k \in 1..Len(extracted_data)
    /\ extracted_data[k][field] = NA
    /\ data_list' = extracted_data
    /\ extracted_data' = [extracted_data EXCEPT ![k][field] = Filled(field)]
    /\ analysis' = analyze_data(extracted_data')
    /\ UNCHANGED <<parsed, enhanced_data, file, use_ai, ai_model, openai_client,
                   gemini_client, html_content, post_containers, i, locals,
                   raised, response, calls, pc, result, prompt, web_vars>>

NextQuality ==
    \/ AnalyzeData
    \/ \E k \in 1..MaxRecords + 1, field \in {"Name", "Title", "Period", "Details"} :
          ReplaceSentinel(k, field)

SpecQuality == InitQuality /\ [][NextQuality]_vars

---------------------------------------------------------------------------
(* Properties of the Quality Analyzer (SpecQuality).                       *)

Scored == pc = "analyzed" /\ "data_quality_score" \in DOMAIN analysis

\* C12: for every non-empty record list the quality percentage lies in
\* [0, 100] (0..10000 hundredths), and replacing a sentinel field by a value
\* in a set of the same size never lowers it.
C12_QualityBoundedAndMonotone ==
    /\ [](Scored => (analysis.data_quality_score >= 0 /\ analysis.data_quality_score <= 10000))
    /\ [][(Scored /\ Scored') =>
             analysis'.data_quality_score >= analysis.data_quality_score]_vars

\* a replacement in a two-record set that raised the percentage to 100
C12_Witness ==
    /\ Scored
    /\ Len(data_list) = 2
    /\ QualityScore(data_list) < 10000
    /\ analysis.data_quality_score = 10000

---------------------------------------------------------------------------
(* Properties of the merge lookup (SpecMerge).                             *)

\* the parsed rows whose trimmed Name is the trimmed name
RowsNamed(name) ==
    {j \in 1..Len(parsed.value) : strip(parsed.value[j].Name) = strip(name)}

\* the original records whose trimmed Name is the trimmed name
RecordsNamed(name) ==
    {k \in 1..Len(extracted_data) : strip(extracted_data[k].Name) = strip(name)}

\* C13: each merged record keeps the original Name, Title, Period and
\* Details; its Company and Location are those of one parsed row with the
\* same trimmed Name, the same row for every record of that Name, and are
\* both "N/A" when no parsed row has that Name.
C13_MergeLookup ==
    Merged =>
        \A k \in 1..Len(extracted_data) :
            LET rec == extracted_data[k]
                out == enhanced_data.value[k]
                rows == RowsNamed(rec.Name)
            IN  /\ out.Name = rec.Name /\ out.Title = rec.Title
                /\ out.Period = rec.Period /\ out.Details = rec.Details
                /\ rows = {} => (out.Company = NA /\ out.Location = NA)
                /\ rows # {} =>
                      \E j \in rows : \A k2 \in RecordsNamed(rec.Name) :
                          /\ enhanced_data.value[k2].Company = parsed.value[j].Company
                          /\ enhanced_data.value[k2].Location = parsed.value[j].Location

\* two records named Al and one named Bo against two rows for Al, the second
\* with a padded Name and another Company: both Al records take the second
\* row, Bo gets the sentinel
C13_Witness ==
    /\ Merged
    /\ Len(extracted_data) = 3
    /\ Len(parsed.value) = 2
    /\ extracted_data[1].Name = Al /\ extracted_data[2].Name = Bo
    /\ extracted_data[3].Name = Al
    /\ parsed.value[1].Name = Al /\ parsed.value[1].Company = XY
    /\ parsed.value[2].Name = PaddedAl /\ parsed.value[2].Company = Zed
    /\ enhanced_data.value[1].Company = Zed
    /\ enhanced_data.value[3].Company = Zed
    /\ enhanced_data.value[2].Company = NA /\ enhanced_data.value[2].Location = NA

---------------------------------------------------------------------------
(* Further properties of process_mhtml_file (Spec).                        *)

\* enhance_data_with_ai has returned
EnhanceReturned == pc \in {"analyze", "done"} /\ use_ai /\ (openai_client \/ gemini_client)

\* C14: every record of a non-null result of enhance_data_with_ai, whatever
\* the model argument, has Company and Location, is tagged traditional+ai
\* and has confidence 0.9 (90 hundredths).
C14_EnhancedRecordsTagged ==
    (EnhanceReturned /\ ~enhanced_data.none) =>
        \A k \in 1..Len(enhanced_data.value) :
            LET rec == enhanced_data.value[k]
            IN  /\ {"Company", "Location", "extraction_method", "confidence"}
                       \subseteq DOMAIN rec
                /\ rec.extraction_method \in {AiMethod(m) : m \in {"chatgpt", "gemini"}}
                /\ rec.confidence = 90

---------------------------------------------------------------------------
(* _parse_csv_response on its own.                                         *)

MaxLines == 3

FenceCsv == Fence \o <<"c", "s", "v">>
\* a data row with a carriage return inside the name
RowCr == join(Comma, <<<<"1">>, <<"A", "\r", "l">>, XY, Zed>>)

\* the lines a response is made of
ResponseLines ==
    {Prose, ProseWithComma, HeaderLine, RowAl, RowCr, FenceCsv, Fence,
     Fence \o HeaderLine, Fence \o RowAl}

\* answers with a fenced block and further lines after its closing fence
FencedResponses ==
    {join(Newline, lines) :
        lines \in {<<Fence, HeaderLine, Fence, RowAl>>,
                   <<FenceCsv, HeaderLine, RowAl, Fence, RowBo>>,
                   <<FenceCsv, HeaderLine, RowAl, Fence, ProseWithComma>>,
                   <<Prose, FenceCsv, HeaderLine, RowBo, Fence, Prose>>}}

ResponseTexts ==
    {join(Newline, lines) : lines \in SeqsUpTo(ResponseLines, MaxLines)} \cup FencedResponses

InitParse ==
    /\ response \in {Answer(text) : text \in ResponseTexts}
    /\ pc = "parse"
    /\ parsed = None
    /\ extracted_data = << >>
    /\ data_list = << >>
    /\ file = NoFile
    /\ use_ai = TRUE
    /\ ai_model = "chatgpt"
    /\ openai_client = TRUE
    /\ gemini_client = FALSE
    /\ html_content = << >>
    /\ post_containers = << >>
    /\ i = 0
    /\ locals = NoLocals
    /\ raised = {}
    /\ calls = 1
    /\ enhanced_data = None
    /\ result = NoResult
    /\ analysis = [pending |-> TRUE]
    /\ prompt = NoPrompt
    /\ WebIdle

\* lines 598 / 660: the response content is parsed
ParseResponse ==
    /\ pc = "parse"
    /\ parsed' = _parse_csv_response(response.text)
    /\ pc' = "parsed"
    /\ UNCHANGED <<enhanced_data, file, use_ai, ai_model, openai_client,
                   gemini_client, html_content, post_containers, i, locals,
                   data_list, raised, extracted_data, response, calls, result, analysis, prompt, web_vars>>

SpecParse == InitParse /\ [][ParseResponse]_vars

---------------------------------------------------------------------------
(* Properties of the response parser (SpecParse).                          *)

Parsed == pc = "parsed"

\* the lines that remain once the fence lines are stripped and only the lines
\* with at least 4 comma-separated fields are kept
RemainingLines(text) ==
    SelectSeq(split(strip(text), "\n", << >>),
              LAMBDA line : ~startswith(strip(line), Fence) /\ LooksLikeCsv(strip(line)))

\* C15: the parser never raises; it returns null whenever fewer than 2 lines
\* with at least 4 comma-separated fields remain after fence stripping and
\* line filtering, or the reader fails, and a list of rows otherwise.
C15_NullOnFewValidLines ==
    Parsed =>
        (parsed.none <=>
            \/ Len(RemainingLines(response.text)) < 2
            \/ CsvRaises(join(Newline, RemainingLines(response.text)), "start"))

---------------------------------------------------------------------------
(* enhance_data_with_ai called on its own.                                 *)

InitEnhance ==
    /\ extracted_data \in OriginalLists
    /\ ai_model \in Models
    /\ openai_client \in BOOLEAN
    /\ gemini_client \in BOOLEAN
    /\ pc = "enhance_data_with_ai"
    /\ use_ai = TRUE
    /\ file = NoFile
    /\ html_content = << >>
    /\ post_containers = << >>
    /\ i = 0
    /\ locals = NoLocals
    /\ data_list = << >>
    /\ raised = {}
    /\ response = NoResponse
    /\ calls = 0
    /\ parsed = None
    /\ enhanced_data = None
    /\ result = NoResult
    /\ analysis = [pending |-> TRUE]
    /\ prompt = NoPrompt
    /\ WebIdle

\* lines 536-548 and 613-617: the dispatch on the model name and the test of
\* the model's client, up to the collaborator's call
EnhanceDispatch ==
    /\ pc = "enhance_data_with_ai"
    /\ IF \/ ai_model = "chatgpt" /\ openai_client
          \/ ai_model = "gemini" /\ gemini_client
       THEN /\ prompt' = BuildPrompt(extracted_data)
            /\ pc' = "awaiting_response" /\ calls' = calls + 1 /\ UNCHANGED enhanced_data
       ELSE /\ pc' = "returned"
            /\ enhanced_data' = IF ai_model \in {"chatgpt", "gemini"}
                                 THEN None ELSE Some(extracted_data)
            /\ UNCHANGED <<calls, prompt>>
    /\ UNCHANGED <<parsed, file, use_ai, ai_model, openai_client, gemini_client,
                   html_content, post_containers, i, locals, data_list, raised,
                   extracted_data, response, result, analysis, web_vars>>

\* lines 585-611 / 655-675: the collaborator answers or fails
EnhanceRespond(resp) ==
    /\ pc = "awaiting_response"
    /\ response' = resp
    /\ parsed' = IF resp.failed THEN None ELSE _parse_csv_response(resp.text)
    /\ enhanced_data' = EnhanceResult(extracted_data, resp, ai_model)
    /\ pc' = "returned"
    /\ UNCHANGED <<file, use_ai, ai_model, openai_client, gemini_client,
                   html_content, post_containers, i, locals, data_list, raised,
                   extracted_data, calls, result, analysis, prompt, web_vars>>

NextEnhance ==
    \/ EnhanceDispatch
    \/ \E resp \in Responses : EnhanceRespond(resp)

SpecEnhance == InitEnhance /\ [][NextEnhance]_vars

---------------------------------------------------------------------------
(* Properties of enhance_data_with_ai (SpecEnhance).                       *)

\* C16: on an extractor created without any API key enhance_data_with_ai
\* falls back to the traditional data: it returns a list with as many
\* records as its input, not an absent result.
C16_NoKeyFallsBackToList ==
    (pc = "returned" /\ ~openai_client /\ ~gemini_client) =>
        /\ ~enhanced_data.none
        /\ Len(enhanced_data.value) = Len(extracted_data)

---------------------------------------------------------------------------
(* export_csv of the web interface.                                        *)

MaxExport == 3

Place == <<"S", "F", ",", " ", "C", "A">>

\* the column order of the export
columns == <<"Name", "Title", "Period", "Details", "Company", "Location">>
ColumnNames == <<Name_, <<"T", "i", "t", "l", "e">>, <<"P", "e", "r", "i", "o", "d">>,
                 <<"D", "e", "t", "a", "i", "l", "s">>, Company_, Location_>>

\* records as the client posts them: traditional ones, enhanced ones, and
\* ones that carry a Company but no Location
ExportRecords ==
    LET cores == {[Name |-> Al, Title |-> PM, Period |-> NA, Details |-> HiringNow],
                  [Name |-> Bo, Title |-> VP, Period |-> OneDay, Details |-> Place]}
    IN  cores
        \cup {[f \in DOMAIN c \cup {"Company"} |->
                  IF f = "Company" THEN XY ELSE c[f]] : c \in cores}
        \cup {[f \in DOMAIN c \cup {"Company", "Location"} |->
                  IF f = "Company" THEN XY
                  ELSE IF f = "Location" THEN Remote ELSE c[f]] : c \in cores}

ExportLists == SeqsUpTo(ExportRecords, MaxExport)

\* pd.DataFrame(extracted_data) and lines 403-408: a column no record has is
\* added with the sentinel; in a column some record has, a record without
\* it holds NaN, which to_csv writes as the empty string
ExportCell(data, k, col) ==
    IF \A j \in 1..Len(data) : col \notin DOMAIN data[j] THEN NA
    ELSE IF col \in DOMAIN data[k] THEN data[k][col]
    ELSE EmptyText

\* os.linesep, the line terminator pandas hands to csv.writer
lineterminator == <<"\n">>

\* the characters that csv.writer quotes whatever the dialect: none up to
\* Python 3.12, the carriage return and the line feed from Python 3.13 on
QuotedByInterpreter == {{}, {"\r", "\n"}}

\* csv.writer under QUOTE_MINIMAL: a field is quoted when it holds the
\* delimiter, the quote character, a character of the line terminator or a
\* character the interpreter always quotes
CsvField(s, always_quoted) ==
    IF \E k \in 1..Len(s) :
          s[k] \in {",", "\""} \cup {lineterminator[j] : j \in 1..Len(lineterminator)}
                   \cup always_quoted
    THEN <<"\"">> \o DoubledQuotes(s) \o <<"\"">>
    ELSE s

\* df.to_csv(index=False): one line per record
RECURSIVE to_csv(_, _, _)
to_csv(data, k, always_quoted) ==
    IF k > Len(data) THEN << >>
    ELSE join(Comma, [c \in 1..Len(columns) |->
                         CsvField(ExportCell(data, k, columns[c]), always_quoted)])
         \o lineterminator \o to_csv(data, k + 1, always_quoted)

InitExport ==
    /\ extracted_data \in ExportLists
    /\ pc = "export_csv"
    /\ data_list = << >>
    /\ file = NoFile
    /\ use_ai = FALSE
    /\ ai_model = "chatgpt"
    /\ openai_client = FALSE
    /\ gemini_client = FALSE
    /\ html_content = << >>
    /\ post_containers = << >>
    /\ i = 0
    /\ locals = NoLocals
    /\ raised = {}
    /\ response = NoResponse
    /\ calls = 0
    /\ parsed = None
    /\ enhanced_data = None
    /\ result = NoResult
    /\ analysis = [pending |-> TRUE]
    /\ prompt = NoPrompt
    /\ WebIdle

\* export_csv: an empty record list is refused, any other is written
ExportCsv ==
    /\ pc = "export_csv"
    /\ \E always_quoted \in QuotedByInterpreter :
          result' = IF extracted_data = << >>
                    THEN [success |-> FALSE, error |-> "No data to export"]
                    ELSE [success |-> TRUE,
                          csv_content |-> join(Comma, ColumnNames) \o lineterminator
                                          \o to_csv(extracted_data, 1, always_quoted)]
    /\ pc' = "exported"
    /\ UNCHANGED <<parsed, enhanced_data, file, use_ai, ai_model, openai_client,
                   gemini_client, html_content, post_containers, i, locals,
                   data_list, raised, extracted_data, response, calls, analysis, prompt, web_vars>>

SpecExport == InitExport /\ [][ExportCsv]_vars

---------------------------------------------------------------------------
(* Properties of the CSV export (SpecExport).                              *)

\* the rows a csv reader finds in the exported text
ExportedRows == CsvRows(result.csv_content, "start", << >>, << >>, FALSE)

\* the value of a field of a record, the sentinel when the record lacks it
FieldOrSentinel(rec, f) == IF f \in DOMAIN rec THEN rec[f] ELSE NA

\* C17: the export has the columns Name, Title, Period, Details, Company,
\* Location in that order and one row per record, and a record without
\* Company or Location has "N/A" in that column, whatever the other records
\* carry.
C17_ExportFillsEachRecord ==
    (pc = "exported" /\ result.success) =>
        /\ Len(ExportedRows) = 1 + Len(extracted_data)
        /\ ExportedRows[1] = ColumnNames
        /\ \A k \in 1..Len(extracted_data) :
              ExportedRows[k + 1] =
                  [c \in 1..Len(columns) |-> FieldOrSentinel(extracted_data[k], columns[c])]

---------------------------------------------------------------------------
(* get_formatted_output on its own.                                        *)

MaxFormat == 2

NoDataToDisplay ==
    <<"N", "o", " ", "d", "a", "t", "a", " ", "t", "o", " ", "d", "i", "s", "p", "l", "a", "y">>

\* a text of two lines, and texts longer than the widest column
TwoLines == <<"H", "i", "\n", "y", "o", "u">>
LongText == [k \in 1..64 |-> "x"]
LongThenBreak == LongText \o <<"\n", "y">>

FormattedRecords ==
    LET cores == [Name : {Al, Bo}, Title : {PM}, Period : {NA},
                  Details : {HiringNow, TwoLines, LongText, LongThenBreak}]
    IN  cores
        \cup {[f \in DOMAIN c \cup {"Company", "Location"} |->
                  IF f = "Company" THEN XY
                  ELSE IF f = "Location" THEN Remote ELSE c[f]] : c \in cores}

FormattedLists == SeqsUpTo(FormattedRecords, MaxFormat)

\* entry.get(col, '')
GetOrEmpty(entry, c) == IF columns[c] \in DOMAIN entry THEN entry[columns[c]] ELSE EmptyText

Min(a, b) == IF a < b THEN a ELSE b
MaxOf(S) == CHOOSE x \in S : \A y \in S : y <= x

\* lines 510-513: the width of a column
col_widths(data, c) ==
    LET max_len == MaxOf({Len(GetOrEmpty(data[k], c)) : k \in 1..Len(data)})
    IN  Min(max_len + 2,
            IF columns[c] \in {"Name", "Period", "Location"} THEN 30
            ELSE IF columns[c] = "Company" THEN 40 ELSE 60)

\* f"{s:<{w}}": s padded with spaces on the right up to w characters
PadRight(s, w) ==
    IF Len(s) >= w THEN s ELSE [k \in 1..w |-> IF k <= Len(s) THEN s[k] ELSE " "]

Bar == <<" ", "|", " ">>

\* lines 516-519
FormatHeader(data) ==
    join(Bar, [c \in 1..Len(columns) |-> PadRight(ColumnNames[c], col_widths(data, c))])

\* lines 524-529: each value is cut to its column's width less 2
FormatRow(data, entry) ==
    join(Bar, [c \in 1..Len(columns) |->
                  LET w == col_widths(data, c)
                      v == GetOrEmpty(entry, c)
                  IN  PadRight(SubSeq(v, 1, Min(Len(v), w - 2)), w)])

get_formatted_output(data) ==
    IF data = << >> THEN NoDataToDisplay
    ELSE LET header == FormatHeader(data)
             separator == [k \in 1..Len(header) |-> "-"]
         IN  join(Newline,
                  <<header, separator>> \o [k \in 1..Len(data) |-> FormatRow(data, data[k])])

InitFormat ==
    /\ extracted_data \in FormattedLists
    /\ pc = "get_formatted_output"
    /\ data_list = << >>
    /\ file = NoFile
    /\ use_ai = FALSE
    /\ ai_model = "chatgpt"
    /\ openai_client = FALSE
    /\ gemini_client = FALSE
    /\ html_content = << >>
    /\ post_containers = << >>
    /\ i = 0
    /\ locals = NoLocals
    /\ raised = {}
    /\ response = NoResponse
    /\ calls = 0
    /\ parsed = None
    /\ enhanced_data = None
    /\ result = NoResult
    /\ analysis = [pending |-> TRUE]
    /\ prompt = NoPrompt
    /\ WebIdle

\* result holds the text the formatter returns
Format ==
    /\ pc = "get_formatted_output"
    /\ result' = [text |-> get_formatted_output(extracted_data)]
    /\ pc' = "formatted"
    /\ UNCHANGED <<parsed, enhanced_data, file, use_ai, ai_model, openai_client,
                   gemini_client, html_content, post_containers, i, locals,
                   data_list, raised, extracted_data, response, calls, analysis, prompt, web_vars>>

SpecFormat == InitFormat /\ [][Format]_vars

---------------------------------------------------------------------------
(* Properties of the formatter (SpecFormat).                               *)

\* C18: the formatter returns exactly "No data to display" for an empty
\* list, and for N > 0 records, whatever their values, a text of exactly
\* 2 + N lines.
C18_FormatterLineCount ==
    pc = "formatted" =>
        IF extracted_data = << >>
        THEN result.text = NoDataToDisplay
        ELSE Len(split(result.text, "\n", << >>)) = 2 + Len(extracted_data)

---------------------------------------------------------------------------
(* Scenarios of the Post Enumerator (SpecEnum).                            *)

\* the document <div class="feed-shared-update-v2"><span aria-hidden="true">
\* text</span></div>
HiddenSpanOnly(text) ==
    html_content =
        Flatten(<<[cls |-> "feed-shared-update-v2",
                   kids |-> <<Kid("span", {}, TRUE, text, 0)>>]>>, 0)

\* the texts of the hidden span that are longer than one character
SpanTexts == {Al, PaddedAl, NA}

\* the one record of the scenario
NameOnlyRecord(text) ==
    [Name |-> strip(text), Title |-> NoTitleFound, Period |-> NA, Details |-> NA,
     Post_Index |-> 1]

\* C19 as stated: a document whose only primary container holds just a
\* hidden span with a text longer than one character yields exactly one
\* record, with that text as Name, Title "No title found", Period "N/A" and
\* Details "N/A".
C19_HiddenSpanGivesOneRecord ==
    \A text \in SpanTexts :
        (EnumDone /\ raised = {} /\ HiddenSpanOnly(text)) =>
            data_list = <<NameOnlyRecord(text)>>

\* C19, amended: the same for every such text other than the sentinel "N/A".
C19_NamedHiddenSpanGivesOneRecord ==
    \A text \in SpanTexts \ {NA} :
        (EnumDone /\ raised = {} /\ HiddenSpanOnly(text)) =>
            data_list = <<NameOnlyRecord(text)>>

\* the scenario with a padded name: the one record carries the trimmed name
\* and the title default
C19_Witness ==
    /\ EnumDone /\ raised = {}
    /\ HiddenSpanOnly(PaddedAl)
    /\ Len(data_list) = 1
    /\ data_list[1].Name = Al
    /\ data_list[1].Title = NoTitleFound

---------------------------------------------------------------------------
(* The empty document in process_mhtml_file (Spec).                        *)

\* the archive had an HTML part in which no container selector matched, and
\* the analyzer has run
AnalyzedNoContainers ==
    Returned /\ html_content # << >> /\ post_containers = << >>

\* C20: for an HTML input with zero post containers the enumerator returns
\* an empty list, and the analyzer applied to the empty list returns exactly
\* the report {"error": "No data to analyze"}, with no other field.
C20_EmptyListErrorReport ==
    AnalyzedNoContainers =>
        /\ data_list = << >>
        /\ extracted_data = << >>
        /\ DOMAIN analysis = {"error"}
        /\ analysis.error = "No data to analyze"

\* a document without any container has gone through the enumerator and the
\* analyzer with enhancement requested
C20_Witness ==
    /\ AnalyzedNoContainers
    /\ use_ai
    /\ data_list = << >>
    /\ "error" \in DOMAIN analysis

---------------------------------------------------------------------------
(* C21: the archive reader and the first text/html part.                   *)

HtmlParts == {k \in 1..Len(file.parts) : file.parts[k].ctype = "text/html"}
HtmlExtracted == file.readable /\ pc \notin {"read", "html"}

\* C21: extract_html_content returns the decoded text of the first part of
\* the walk whose content type is text/html, and returns the empty text
\* exactly when the archive has no text/html part.
C21_FirstHtmlPartOrEmpty ==
    HtmlExtracted =>
        /\ (html_content = << >>) <=> (HtmlParts = {})
        /\ HtmlParts # {} =>
             html_content = file.parts[MaxOf({0 - k : k \in HtmlParts}) * (0 - 1)].payload.doc

---------------------------------------------------------------------------
(* C22: the title placeholder in the quality report.                       *)

\* no strategy of Title, Period or Details finds an element below element k
NothingButName(k) ==
    /\ TitlePrimaryMatch(k) = << >> /\ ~FallbackMatches(k, title_selectors)
    /\ PeriodPrimaryMatch(k) = << >> /\ ~FallbackMatches(k, period_selectors)
    /\ DetailsPrimaryMatch(k) = << >> /\ ~FallbackMatches(k, detail_selectors)

\* the analyzer has scored a record set in which only names were extracted
ScoredNamesOnly ==
    /\ Returned
    /\ "data_quality_score" \in DOMAIN analysis
    /\ \A n \in 1..Len(post_containers) : NothingButName(post_containers[n])

\* C22: a record whose Title fell through every strategy to its placeholder
\* adds nothing to title completeness, so a record set in which no Title,
\* Period or Details was extracted scores 25 (2500 hundredths).
C22_NamesOnlyScores25 ==
    ScoredNamesOnly => analysis.data_quality_score = 2500

---------------------------------------------------------------------------
(* C23: the row count named in the instruction.                            *)

PromptBuilt == "rows" \in DOMAIN prompt

\* C23: the instruction built for an input of N records names N as the row
\* count the collaborator has to return, for the ChatGPT and the Gemini
\* adapter alike.
C23_PromptNamesInputRowCount ==
    PromptBuilt => prompt.rows = Len(extracted_data)

---------------------------------------------------------------------------
(* C24: the collaborator is called at most once per run.                   *)

\* a client for the selected model is configured
ClientForModel ==
    \/ ai_model = "chatgpt" /\ openai_client
    \/ ai_model = "gemini" /\ gemini_client

\* C24: in a run of process_mhtml_file the collaborator is called at most
\* once; after its answer, failed or unparsable included, no further call is
\* made; and it is never called when use_ai is false or when there is no
\* client for the selected model.
C24_AtMostOneCall ==
    /\ [](calls <= 1)
    /\ []((~use_ai \/ ~ClientForModel) => calls = 0)
    /\ [][(pc \in {"analyze", "done"}) => (calls' = calls)]_vars

\* a run that has returned after one call whose answer could not be parsed
C24_Witness ==
    /\ Returned
    /\ calls = 1
    /\ ~response.failed
    /\ parsed.none
    /\ enhanced_data.none

---------------------------------------------------------------------------
(* _convert_to_csv_input on its own.                                       *)

MaxCsvIn == 2

AB == <<"A", ",", "B">>
SayHi == <<"s", "a", "y", " ", "\"", "h", "i", "\"">>
QuotedHi == <<"\"", "h", "i", "\"">>
CommaQuote == <<"a", ",", "\"", "b", "\"">>
CommaBreak == <<"a", ",", "\n", "b">>

\* records with quote characters, commas and line breaks in their values
CsvInputRecords ==
    [Name : {Al, AB}, Title : {PM}, Period : {NA},
     Details : {HiringNow, TwoLines, SayHi, QuotedHi, CommaQuote, CommaBreak}]
CsvInputLists == SeqsUpTo(CsvInputRecords, MaxCsvIn)

InitCsvInput ==
    /\ extracted_data \in CsvInputLists
    /\ pc = "convert_to_csv_input"
    /\ data_list = << >>
    /\ file = NoFile
    /\ use_ai = FALSE
    /\ ai_model = "chatgpt"
    /\ openai_client = FALSE
    /\ gemini_client = FALSE
    /\ html_content = << >>
    /\ post_containers = << >>
    /\ i = 0
    /\ locals = NoLocals
    /\ raised = {}
    /\ response = NoResponse
    /\ calls = 0
    /\ parsed = None
    /\ enhanced_data = None
    /\ result = NoResult
    /\ analysis = [pending |-> TRUE]
    /\ prompt = NoPrompt
    /\ WebIdle

\* csv_input = self._convert_to_csv_input(traditional_data)
ConvertToCsvInput ==
    /\ pc = "convert_to_csv_input"
    /\ prompt' = [csv_input |-> _convert_to_csv_input(extracted_data)]
    /\ pc' = "converted"
    /\ UNCHANGED <<parsed, enhanced_data, file, use_ai, ai_model, openai_client,
                   gemini_client, html_content, post_containers, i, locals,
                   data_list, raised, extracted_data, response, calls, result, analysis, web_vars>>

SpecCsvInput == InitCsvInput /\ [][ConvertToCsvInput]_vars

---------------------------------------------------------------------------
(* C25: the tabular block read back by a CSV reader.                       *)

\* the rows a CSV reader should give for the records
ExpectedCsvRows(data) ==
    << <<Name_, <<"T", "i", "t", "l", "e">>, <<"P", "e", "r", "i", "o", "d">>,
         <<"D", "e", "t", "a", "i", "l", "s">> >> >>
    \o [k \in 1..Len(data) |->
           <<data[k].Name, data[k].Title, data[k].Period, data[k].Details>>]

\* C25: for every list of N >= 1 records the block _convert_to_csv_input
\* produces, read back by a CSV reader, is the header Name,Title,Period,
\* Details followed by exactly N rows whose four fields are the records'
\* values, also for values with quote characters, commas or line breaks.
C25_CsvInputRoundTrip ==
    (pc = "converted" /\ Len(extracted_data) >= 1) =>
        CsvRows(prompt.csv_input, "start", << >>, << >>, FALSE)
            = ExpectedCsvRows(extracted_data)

---------------------------------------------------------------------------
(* C26: the closing fence of a fenced block.                               *)

\* the lines of the answer, and the positions of those starting with a fence
AnswerLines == split(strip(response.text), "\n", << >>)
FenceLines == {k \in 1..Len(AnswerLines) : startswith(strip(AnswerLines[k]), Fence)}
HasClosingFence == Cardinality(FenceLines) >= 2
ClosingFence ==
    CHOOSE k \in FenceLines : Cardinality({j \in FenceLines : j < k}) = 1

\* C26: when the answer contains a fenced block the parser stops at the
\* closing fence: no line after the closing fence becomes a parsed row, so
\* the answer parses as the answer cut after its closing fence does.
C26_StopsAtClosingFence ==
    (Parsed /\ HasClosingFence) =>
        parsed = _parse_csv_response(join(Newline, SubSeq(AnswerLines, 1, ClosingFence)))

---------------------------------------------------------------------------
(* C27: the quality classification (SpecQuality).                          *)

\* C27: for every non-empty record list the first insight is exactly one of
\* high (score > 80), moderate (60 < score <= 80) and low (score <= 60), and
\* the format-review recommendation is there exactly when score < 80; at a
\* score of exactly 80 the insight is moderate and no recommendation is made.
C27_QualityClassification ==
    Scored =>
        LET score == analysis.data_quality_score
            insight == analysis.insights[1]
        IN  /\ insight \in {"high", "moderate", "low"}
            /\ (insight = "high") <=> (score > 8000)
            /\ (insight = "moderate") <=> (score > 6000 /\ score <= 8000)
            /\ (insight = "low") <=> (score <= 6000)
            /\ (analysis.recommendations = <<"review format">>) <=> (score < 8000)
            /\ (analysis.recommendations = << >>) <=> (score >= 8000)

\* five records with 16 of 20 fields complete: the score is exactly 80
C27_Witness ==
    /\ Scored
    /\ Len(extracted_data) = 5
    /\ analysis.data_quality_score = 8000
    /\ analysis.insights[1] = "moderate"
    /\ analysis.recommendations = << >>

---------------------------------------------------------------------------
(* C28: the widths of the formatter's lines (SpecFormat).                  *)

\* no value of the records holds a line break
NoLineBreaks(data) ==
    \A k \in 1..Len(data) : \A f \in DOMAIN data[k] :
        ~Contains(data[k][f], "\n")

\* C28: each column takes exactly its computed width in the header and in
\* every data row, so the header line, the separator line and every data row
\* of the table have the same length for every non-empty record list.
C28_FixedWidthLines ==
    (pc = "formatted" /\ extracted_data # << >> /\ NoLineBreaks(extracted_data)) =>
        LET lines == split(result.text, "\n", << >>)
        IN  \A j \in 1..Len(lines) : Len(lines[j]) = Len(lines[1])

---------------------------------------------------------------------------
(* The result store: src/database.py.                                      *)
(* Every method opens its own connection and never sets PRAGMA             *)
(* foreign_keys, so SQLite, whose default is OFF, does not enforce the     *)
(* FOREIGN KEY ... ON DELETE CASCADE clause of enhanced_data.              *)

MaxSeconds == 1
MaxDays == 1
MaxStored == 2
MaxEnhanced == 4

\* the seconds of 24 hours
Day == 86400

\* expires_at = DATETIME('now', '+24 hours'), the clock being in seconds
ExpiresAfter(t) == t + Day

\* the values of the clock: up to MaxDays days and MaxSeconds seconds
Times == {d * Day + k : d \in 0..MaxDays, k \in 0..MaxSeconds}

pipeline_vars == <<file, use_ai, ai_model, openai_client, gemini_client, pc, html_content,
                   post_containers, i, locals, data_list, raised, extracted_data,
                   response, calls, parsed, enhanced_data, analysis, prompt, result>>

\* no run of the extractor is in progress
PipelineIdle ==
    /\ file = NoFile
    /\ use_ai = FALSE
    /\ ai_model = "chatgpt"
    /\ openai_client = FALSE
    /\ gemini_client = FALSE
    /\ pc = "idle"
    /\ html_content = << >>
    /\ post_containers = << >>
    /\ i = 0
    /\ locals = NoLocals
    /\ data_list = << >>
    /\ raised = {}
    /\ extracted_data = << >>
    /\ response = NoResponse
    /\ calls = 0
    /\ parsed = None
    /\ enhanced_data = None
    /\ result = NoResult
    /\ analysis = [pending |-> TRUE]
    /\ prompt = NoPrompt

\* record.get(col, '')
GetOrBlank(record, col) == IF col \in DOMAIN record THEN record[col] ELSE EmptyText

\* lines 108-114: the row INSERTed by store_results; cursor.lastrowid is the
\* next value of the AUTOINCREMENT counter
NewResultRow(filename, timestamp, results) ==
    [id |-> sqlite_sequence.processing_results + 1,
     filename |-> filename,
     timestamp |-> timestamp,
     results |-> results,
     expires_at |-> ExpiresAfter(now)]

\* lines 126-144: the rows of result_id are deleted and one row per record
\* is inserted
EnhancedRowsAfterStore(result_id, data) ==
    {e \in enhanced_table : e.result_id # result_id}
    \cup {[id |-> sqlite_sequence.enhanced_data + k,
           result_id |-> result_id,
           name |-> GetOrBlank(data[k], "Name"),
           title |-> GetOrBlank(data[k], "Title"),
           period |-> GetOrBlank(data[k], "Period"),
           details |-> GetOrBlank(data[k], "Details"),
           company |-> GetOrBlank(data[k], "Company"),
           location |-> GetOrBlank(data[k], "Location")] : k \in 1..Len(data)}

\* the rows of a set in the order of their id
RECURSIVE OrderById(_)
OrderById(rows) ==
    IF rows = {} THEN << >>
    ELSE LET first == CHOOSE r \in rows : \A q \in rows : r.id <= q.id
         IN  <<first>> \o OrderById(rows \ {first})

\* get_enhanced_data: the records of result_id ordered by id, None when
\* there is no row
get_enhanced_data(result_id) ==
    LET rows == OrderById({e \in enhanced_table : e.result_id = result_id})
    IN  IF rows = << >> THEN None
        ELSE Some([k \in 1..Len(rows) |->
                     [Name |-> rows[k].name, Title |-> rows[k].title,
                      Period |-> rows[k].period, Details |-> rows[k].details,
                      Company |-> rows[k].company, Location |-> rows[k].location]])

\* has_enhanced_data: COUNT(*) > 0
has_enhanced_data(result_id) ==
    Cardinality({e \in enhanced_table : e.result_id = result_id}) > 0

\* the rows the SELECT of retrieve_results matches
MatchingResults(filename, timestamp) ==
    {r \in processing_results :
        r.filename = filename /\ r.timestamp = timestamp /\ r.expires_at > now}

\* retrieve_results: fetchone() takes the first matching row, which the
\* index on (filename, timestamp) yields in the order of the row ids
retrieve_results(filename, timestamp) ==
    LET rows == OrderById(MatchingResults(filename, timestamp))
    IN  IF rows = << >> THEN None ELSE Some(rows[1].results)

---------------------------------------------------------------------------
(* The store's methods called in any order, store_enhanced_data with an id *)
(* that store_results has returned.                                        *)

StoredFilenames == {"a.mhtml", "b.mht"}

\* record lists as the upload route stores them
EnhancedRecord(name, place) ==
    [Name |-> name, Title |-> PM, Period |-> NA, Details |-> NA,
     Company |-> XY, Location |-> place]
StoredLists ==
    {<<EnhancedRecord(Al, Zed)>>, <<EnhancedRecord(Bo, Remote), EnhancedRecord(Al, Zed)>>}

InitDb == PipelineIdle /\ WebIdle

\* store_results(filename, timestamp, ...) at the current second
StoreResults(filename, data) ==
    /\ sqlite_sequence.processing_results < MaxStored
    /\ processing_results' = processing_results
           \cup {NewResultRow(filename, now, [success |-> TRUE, extracted_data |-> data])}
    /\ sqlite_sequence' = [sqlite_sequence EXCEPT !.processing_results = @ + 1]
    /\ UNCHANGED <<pipeline_vars, enhanced_table, now, uploads, requests, session_store,
                   rendered>>

\* store_enhanced_data(result_id, data): the method does not look for the
\* processing_results row of result_id, and no foreign key is enforced
StoreEnhancedData(result_id, data) ==
    /\ sqlite_sequence.enhanced_data + Len(data) <= MaxEnhanced
    /\ enhanced_table' = EnhancedRowsAfterStore(result_id, data)
    /\ sqlite_sequence' = [sqlite_sequence EXCEPT !.enhanced_data = @ + Len(data)]
    /\ UNCHANGED <<pipeline_vars, processing_results, now, uploads, requests,
                   session_store, rendered>>

\* delete_results: DELETE FROM processing_results WHERE filename, timestamp
DeleteResults(filename, timestamp) ==
    /\ processing_results' =
           {r \in processing_results : ~(r.filename = filename /\ r.timestamp = timestamp)}
    /\ UNCHANGED <<pipeline_vars, enhanced_table, sqlite_sequence, now, uploads, requests,
                   session_store, rendered>>

\* cleanup_expired_results: DELETE ... WHERE expires_at < DATETIME('now')
CleanupExpiredResults ==
    /\ processing_results' = {r \in processing_results : ~(r.expires_at < now)}
    /\ UNCHANGED <<pipeline_vars, enhanced_table, sqlite_sequence, now, uploads, requests,
                   session_store, rendered>>

\* time passes: a second or 24 hours
Tick(step) ==
    /\ step = 1 => now % Day < MaxSeconds
    /\ step = Day => now \div Day < MaxDays
    /\ now' = now + step
    /\ UNCHANGED <<pipeline_vars, processing_results, enhanced_table, sqlite_sequence,
                   uploads, requests, session_store, rendered>>

\* the ids store_results has returned, which are the ids a caller holds
IssuedIds == 1..sqlite_sequence.processing_results

NextDb ==
    \/ \E filename \in StoredFilenames, data \in StoredLists : StoreResults(filename, data)
    \/ \E result_id \in IssuedIds, data \in StoredLists :
          StoreEnhancedData(result_id, data)
    \/ \E filename \in StoredFilenames, timestamp \in Times :
          DeleteResults(filename, timestamp)
    \/ CleanupExpiredResults
    \/ \E step \in {1, Day} : Tick(step)

SpecDb == InitDb /\ [][NextDb]_vars

---------------------------------------------------------------------------
(* C30: referential integrity of the stored results (SpecDb).              *)

StoredIds == {r.id : r \in processing_results}

\* C30: after any sequence of store_results, store_enhanced_data,
\* delete_results and cleanup_expired_results every enhanced_data row refers
\* to an existing processing_results row, and get_enhanced_data and
\* has_enhanced_data report nothing for a result id that was deleted.
C30_EnhancedRowsReferToResults ==
    /\ \A e \in enhanced_table : e.result_id \in StoredIds
    /\ \A id \in 1..sqlite_sequence.processing_results :
          id \notin StoredIds => (get_enhanced_data(id) = None /\ ~has_enhanced_data(id))

---------------------------------------------------------------------------
(* The routes of src/web_interface.py that change the upload folder, the   *)
(* store or a session.  The requests of different clients are served       *)
(* concurrently; a browser session sends one request at a time.  A request *)
(* is modelled by its steps on shared state: each access to the temporary  *)
(* file and each call of the store is a step of its own.  A                *)
(* response that redirects to the index page is followed by the browser's  *)
(* request of that page, which touches the session only.                   *)

Cy == <<"C", "y">>

\* the archive a client uploads: its only post is named after the client
Content(c) == IF c = "s1" THEN Al ELSE IF c = "s2" THEN Bo ELSE Cy

ParsingMethods == {"traditional", "ai"}

\* the name of the uploaded files: two uploads have the same temp_path when
\* they are saved in the same second
UploadFilenames == {"a.mhtml"}

\* temp_path = UPLOAD_FOLDER / f"{timestamp}_{filename}"
TempPath(timestamp, filename) == <<timestamp, filename>>

\* temp_path of the request of client c
temp_path(c) == TempPath(requests[c].timestamp, requests[c].filename)

\* what process_mhtml_file returns for the file at path: a failure when
\* the file is not there, else the one record of its content, with Company
\* and Location when the enhancement succeeded
ProcessedResults(path, enhanced) ==
    IF \A u \in uploads : u.path # path
    THEN [success |-> FALSE, error |-> "read error", file_path |-> path]
    ELSE LET content == (CHOOSE u \in uploads : u.path = path).content
             traditional == [Name |-> content, Title |-> PM, Period |-> NA, Details |-> NA]
         IN  [success |-> TRUE,
              file_path |-> path,
              extracted_data |->
                  <<IF enhanced THEN EnhancedRecord(content, Remote) ELSE traditional>>,
              summary |-> [total_posts |-> 1]]

\* file.save(temp_path) by client c: the file is written under the
\* second-resolution timestamp and its name, replacing a file of that path
Saved(c, filename) ==
    {u \in uploads : u.path # TempPath(now, filename)}
    \cup {[path |-> TempPath(now, filename), content |-> Content(c)]}

\* os.remove(path) inside try/except: a missing file is passed over
Removed(path) == {u \in uploads : u.path # path}

\* the request of client c with the results of process_mhtml_file
WithResults(c, enhanced) ==
    [k \in DOMAIN requests[c] \cup {"results"} |->
        IF k = "results" THEN ProcessedResults(temp_path(c), enhanced)
        ELSE IF k = "pc" THEN "processed" ELSE requests[c][k]]

\* index(): session['upload_data'] is deleted and the index page is shown
Index(s) ==
    /\ requests[s].pc \in {"idle", "done"}
    /\ session_store' = [session_store EXCEPT ![s] = NoUploadData]
    /\ rendered' = [rendered EXCEPT ![s] = NoPage]
    /\ UNCHANGED <<pipeline_vars, processing_results, enhanced_table, sqlite_sequence, now,
                   uploads, requests>>

\* lines 90-95: the file is saved
SaveUpload(s, filename, parsing_method) ==
    /\ requests[s].pc = "idle"
    /\ requests' = [requests EXCEPT ![s] =
                       [pc |-> "saved", filename |-> filename, timestamp |-> now,
                        parsing_method |-> parsing_method]]
    /\ uploads' = Saved(s, filename)
    /\ UNCHANGED <<pipeline_vars, processing_results, enhanced_table, sqlite_sequence, now,
                   session_store, rendered>>

\* lines 97-112: os.path.getsize(temp_path) raises when the file is gone;
\* the handler of line 251 then redirects to the index page
CheckSize(s) ==
    /\ requests[s].pc = "saved"
    /\ IF \E u \in uploads : u.path = temp_path(s)
       THEN /\ requests' = [requests EXCEPT ![s].pc = "sized"]
            /\ UNCHANGED <<session_store, rendered>>
       ELSE /\ requests' = [requests EXCEPT ![s] = [pc |-> "done"]]
            /\ session_store' = [session_store EXCEPT ![s] = NoUploadData]
            /\ rendered' = [rendered EXCEPT ![s] = NoPage]
    /\ UNCHANGED <<pipeline_vars, processing_results, enhanced_table, sqlite_sequence, now,
                   uploads>>

\* line 113: a fresh extractor processes the file at temp_path
ProcessUpload(s, enhanced) ==
    /\ requests[s].pc = "sized"
    /\ enhanced => requests[s].parsing_method = "ai"
    /\ requests' = [requests EXCEPT ![s] = WithResults(s, enhanced)]
    /\ UNCHANGED <<pipeline_vars, processing_results, enhanced_table, sqlite_sequence, now,
                   uploads, session_store, rendered>>

\* lines 119-123: the temporary file is removed
RemoveTemp(s) ==
    /\ requests[s].pc = "processed"
    /\ uploads' = Removed(temp_path(s))
    /\ requests' = [requests EXCEPT ![s].pc = "removed"]
    /\ UNCHANGED <<pipeline_vars, processing_results, enhanced_table, sqlite_sequence, now,
                   session_store, rendered>>

\* lines 125-141 and 221-249: temp_path is removed once more, at line 133
\* after a success and at line 244 after a failure; a failure redirects to
\* the index page, a traditional result of up to 20 records goes into the
\* session
RemoveTempAgain(s) ==
    /\ requests[s].pc = "removed"
    /\ uploads' = Removed(temp_path(s))
    /\ IF ~requests[s].results.success
       THEN /\ requests' = [requests EXCEPT ![s] = [pc |-> "done"]]
            /\ session_store' = [session_store EXCEPT ![s] = NoUploadData]
            /\ rendered' = [rendered EXCEPT ![s] = NoPage]
       ELSE IF requests[s].parsing_method = "ai"
       THEN /\ requests' = [requests EXCEPT ![s].pc = "store"]
            /\ UNCHANGED <<session_store, rendered>>
       ELSE /\ requests' = [requests EXCEPT ![s] = [pc |-> "done", results |-> @.results]]
            /\ session_store' = [session_store EXCEPT ![s] =
                   [filename |-> requests[s].filename,
                    results |-> requests[s].results,
                    timestamp |-> requests[s].timestamp]]
            /\ UNCHANGED rendered
    /\ UNCHANGED <<pipeline_vars, processing_results, enhanced_table, sqlite_sequence, now>>

\* lines 150-156: store_results
StoreUpload(s) ==
    /\ requests[s].pc = "store"
    /\ processing_results' = processing_results
           \cup {NewResultRow(requests[s].filename, requests[s].timestamp,
                              requests[s].results)}
    /\ sqlite_sequence' = [sqlite_sequence EXCEPT !.processing_results = @ + 1]
    /\ requests' = [requests EXCEPT ![s] =
                       [k \in DOMAIN @ \cup {"result_id"} |->
                           IF k = "result_id" THEN sqlite_sequence.processing_results + 1
                           ELSE IF k = "pc" THEN "stored" ELSE @[k]]]
    /\ UNCHANGED <<pipeline_vars, enhanced_table, now, uploads, session_store, rendered>>

\* lines 161-197: store_enhanced_data when the first record has Company and
\* Location, then the metadata goes into the session
FinishUpload(s) ==
    /\ requests[s].pc = "stored"
    /\ LET data == requests[s].results.extracted_data
       IN  IF {"Company", "Location"} \subseteq DOMAIN data[1]
           THEN /\ enhanced_table' = EnhancedRowsAfterStore(requests[s].result_id, data)
                /\ sqlite_sequence' =
                       [sqlite_sequence EXCEPT !.enhanced_data = @ + Len(data)]
           ELSE UNCHANGED <<enhanced_table, sqlite_sequence>>
    /\ session_store' = [session_store EXCEPT ![s] =
           [filename |-> requests[s].filename,
            timestamp |-> requests[s].timestamp,
            data_count |-> Len(requests[s].results.extracted_data),
            processing_method |-> "database",
            result_id |-> requests[s].result_id]]
    /\ requests' = [requests EXCEPT ![s] = [pc |-> "done", results |-> @.results]]
    /\ UNCHANGED <<pipeline_vars, processing_results, now, uploads, rendered>>

\* lines 282-285: what retrieve_results returned, with the id of the row
\* the SELECT took, kept beside it
Retrieved(upload_data) ==
    [row |-> OrderById(MatchingResults(upload_data.filename, upload_data.timestamp))[1].id,
     results |-> retrieve_results(upload_data.filename, upload_data.timestamp).value]

\* lines 291-306: the page of a result kept in the store; the enhanced
\* records of result_id, when there are any, replace the extracted ones
DatabasePage(upload_data, retrieved, stored) ==
    [filename |-> upload_data.filename,
     timestamp |-> upload_data.timestamp,
     row |-> retrieved.row,
     results |->
         IF stored.none THEN retrieved.results
         ELSE [retrieved.results EXCEPT !.extracted_data = stored.value,
                                        !.summary.total_posts = Len(stored.value)]]

\* results() up to line 285 and lines 307-329: without upload_data
\* (lines 323-326), and when retrieve_results finds nothing (lines 307-310),
\* the response redirects to the index page; a result kept in the session
\* is the page; a result found in the store is held by the request
ViewResults(s) ==
    /\ requests[s].pc \in {"idle", "done"}
    /\ IF "none" \in DOMAIN session_store[s]
       THEN /\ rendered' = [rendered EXCEPT ![s] = NoPage]
            /\ UNCHANGED <<session_store, requests>>
       ELSE IF "processing_method" \in DOMAIN session_store[s]
       THEN IF retrieve_results(session_store[s].filename, session_store[s].timestamp).none
            THEN /\ session_store' = [session_store EXCEPT ![s] = NoUploadData]
                 /\ rendered' = [rendered EXCEPT ![s] = NoPage]
                 /\ UNCHANGED requests
            ELSE /\ requests' = [requests EXCEPT ![s] =
                        [pc |-> "retrieved", results |-> @.results,
                         retrieved |-> Retrieved(session_store[s])]]
                 /\ UNCHANGED <<session_store, rendered>>
       ELSE /\ rendered' = [rendered EXCEPT ![s] = session_store[s]]
            /\ UNCHANGED <<session_store, requests>>
    /\ UNCHANGED <<pipeline_vars, processing_results, enhanced_table, sqlite_sequence, now,
                   uploads>>

\* results(), lines 287-306: get_enhanced_data(result_id) and the page
RenderResults(s) ==
    /\ requests[s].pc = "retrieved"
    /\ rendered' = [rendered EXCEPT ![s] =
           DatabasePage(session_store[s], requests[s].retrieved,
                        get_enhanced_data(session_store[s].result_id))]
    /\ requests' = [requests EXCEPT ![s] = [pc |-> "done", results |-> @.results]]
    /\ UNCHANGED <<pipeline_vars, processing_results, enhanced_table, sqlite_sequence, now,
                   uploads, session_store>>

\* debug_database(): get_results_summary reads the store,
\* cleanup_expired_results (line 718) deletes the expired results
DebugDatabase ==
    /\ processing_results' = {r \in processing_results : ~(r.expires_at < now)}
    /\ UNCHANGED <<pipeline_vars, enhanced_table, sqlite_sequence, now, uploads, requests,
                   session_store, rendered>>

\* the API is called with the form's default, use_ai = 'false' (line 358),
\* with which nothing is enhanced
ApiEnhanced == {FALSE}

\* api_process(), lines 347-352: the file is saved
ApiSave(filename) ==
    /\ requests["api"].pc = "idle"
    /\ requests' = [requests EXCEPT !["api"] =
                       [pc |-> "saved", filename |-> filename, timestamp |-> now]]
    /\ uploads' = Saved("api", filename)
    /\ UNCHANGED <<pipeline_vars, processing_results, enhanced_table, sqlite_sequence, now,
                   session_store, rendered>>

\* api_process(), lines 354-366: a fresh extractor processes the file at
\* temp_path; the enhancement can succeed when the form has use_ai = 'true'
ApiProcess(enhanced) ==
    /\ requests["api"].pc = "saved"
    /\ requests' = [requests EXCEPT !["api"] = WithResults("api", enhanced)]
    /\ UNCHANGED <<pipeline_vars, processing_results, enhanced_table, sqlite_sequence, now,
                   uploads, session_store, rendered>>

\* api_process(), lines 368-374: the temporary file is removed and the
\* results are sent, which ends the request
ApiRemove ==
    /\ requests["api"].pc = "processed"
    /\ uploads' = Removed(temp_path("api"))
    /\ requests' = [requests EXCEPT !["api"] = [pc |-> "done"]]
    /\ UNCHANGED <<pipeline_vars, processing_results, enhanced_table, sqlite_sequence, now,
                   session_store, rendered>>

InitWeb == PipelineIdle /\ WebIdle

NextWeb ==
    \/ \E s \in Sessions : Index(s)
    \/ \E s \in Sessions, filename \in UploadFilenames, parsing_method \in ParsingMethods :
          SaveUpload(s, filename, parsing_method)
    \/ \E s \in Sessions : CheckSize(s)
    \/ \E s \in Sessions, enhanced \in BOOLEAN : ProcessUpload(s, enhanced)
    \/ \E s \in Sessions : RemoveTemp(s)
    \/ \E s \in Sessions : RemoveTempAgain(s)
    \/ \E s \in Sessions : StoreUpload(s)
    \/ \E s \in Sessions : FinishUpload(s)
    \/ \E s \in Sessions : ViewResults(s)
    \/ \E s \in Sessions : RenderResults(s)
    \/ DebugDatabase
    \/ \E filename \in UploadFilenames : ApiSave(filename)
    \/ \E enhanced \in ApiEnhanced : ApiProcess(enhanced)
    \/ ApiRemove
    \/ \E step \in {1, Day} : Tick(step)

\* the requests of two browser sessions and of one caller of the API in any
\* interleaving
SpecWeb == InitWeb /\ [][NextWeb]_vars

---------------------------------------------------------------------------
(* C29: a session's results page under concurrent uploads (SpecWeb).       *)

\* the results page of session s shows a result taken from the store
ShowsStoredResult(s) ==
    /\ ~("none" \in DOMAIN rendered[s])
    /\ "row" \in DOMAIN rendered[s]
    /\ "processing_method" \in DOMAIN session_store[s]

\* C29: for any interleaving of uploads by different sessions that use the
\* store, the results page of a session shows the record set stored by its
\* own upload: the row retrieved by (filename, timestamp) is the row whose
\* id is the session's result_id, also when two uploads share the filename
\* and the second-resolution timestamp.
C29_PageShowsOwnUpload ==
    \A s \in Sessions :
        ShowsStoredResult(s) =>
            /\ rendered[s].row = session_store[s].result_id
            /\ [k \in 1..Len(rendered[s].results.extracted_data) |->
                      rendered[s].results.extracted_data[k].Name]
                 = [k \in 1..Len(requests[s].results.extracted_data) |->
                      requests[s].results.extracted_data[k].Name]
====
